---- MODULE Spec2Model ----
(***************************************************************************)
(* rspolib: PO/MO gettext catalogs.                                        *)
(*                                                                         *)
(* Strings are sequences of characters; a character is a one-element       *)
(* string, except the two non-ASCII characters EACUTE and CJK, which are   *)
(* named tokens.  Option<T> is a sequence of length 0 (None) or 1 (Some).  *)
(* HashMap<String, String> is a function from strings to strings.          *)
(***************************************************************************)
EXTENDS Integers, Sequences, FiniteSets, TLC

VARIABLES
    file,   \* the POFile `self`: header, metadata, metadata_is_fuzzy, entries, wrapwidth
    arg,    \* the argument of the last operation (or the input of a pure function)
    pre,    \* self.entries before the last operation
    op,     \* the last operation
    ret     \* what the last operation returned

vars == <<file, arg, pre, op, ret>>

(***************************************************************************)
(* Characters                                                              *)
(***************************************************************************)
EACUTE == "U+00E9"
CJK == "U+5B57"
NUL == "U+0000"
EOT == "U+0004"

None == <<>>
Some(v) == <<v>>
IsSome(o) == Len(o) = 1
Unwrap(o) == o[1]

EmptyMap == <<>>

\* char::len_utf8
ByteLen(c) == IF c = EACUTE THEN 2 ELSE IF c = CJK THEN 3 ELSE 1

\* UnicodeWidthStr::width of a one-character string
CharWidth(c) ==
    IF c = CJK THEN 2
    ELSE IF c \in {"\n", "\t", "\r", NUL, EOT} THEN 0
    ELSE 1

RECURSIVE StrWidth(_)
StrWidth(s) == IF s = <<>> THEN 0 ELSE CharWidth(Head(s)) + StrWidth(Tail(s))

\* str::graphemes(true).count(): every character of the alphabet is one cluster
GraphemeCount(s) == Len(s)

RECURSIVE ByteSize(_)
ByteSize(s) == IF s = <<>> THEN 0 ELSE ByteLen(Head(s)) + ByteSize(Tail(s))

IsWhitespace(c) == c \in {" ", "\n", "\t", "\r"}

RECURSIVE Concat(_)
Concat(ss) == IF ss = <<>> THEN <<>> ELSE Head(ss) \o Concat(Tail(ss))

RECURSIVE Join(_, _)
Join(ss, sep) ==
    IF ss = <<>> THEN <<>>
    ELSE IF Len(ss) = 1 THEN ss[1]
    ELSE ss[1] \o sep \o Join(Tail(ss), sep)

\* str::trim_end
RECURSIVE TrimEnd(_)
TrimEnd(s) ==
    IF s = <<>> THEN s
    ELSE IF IsWhitespace(s[Len(s)]) THEN TrimEnd(SubSeq(s, 1, Len(s) - 1))
    ELSE s

\* str::split('\n'), keeping a final empty piece
RECURSIVE SplitNl(_, _)
SplitNl(s, cur) ==
    LET newlines == {i \in 1..Len(s) : s[i] = "\n"}
    IN IF newlines = {} THEN <<cur \o s>>
       ELSE \* up to the first "\n", then the rest
            LET k == CHOOSE i \in newlines : \A j \in newlines : i <= j
            IN <<cur \o SubSeq(s, 1, k - 1)>> \o SplitNl(SubSeq(s, k + 1, Len(s)), <<>>)

StripCr(l) == IF l # <<>> /\ l[Len(l)] = "\r" THEN SubSeq(l, 1, Len(l) - 1) ELSE l

\* str::lines: split at "\n", no final empty line, a "\r" before "\n" dropped
Lines(s) ==
    LET raw == SplitNl(s, <<>>)
        n == Len(raw)
        kept == IF raw[n] = <<>> THEN SubSeq(raw, 1, n - 1) ELSE raw
    IN [i \in 1..Len(kept) |-> IF i < n THEN StripCr(kept[i]) ELSE kept[i]]

StartsWith(s, p) == Len(s) >= Len(p) /\ SubSeq(s, 1, Len(p)) = p

\* a string literal as a sequence of characters
Chars(str) == [i \in 1..Len(str) |-> SubSeq(str, i, i)]

\* the characters of the alphabet in code point order
CodeOrder ==
    <<NUL, EOT>> \o
    Chars("\t\n\r \"#,-.0123456789:ABCDEFGHIJKLMNOPQRSTUVWXYZ[\\]_abcdefghijklmnopqrstuvwxyz|~")
    \o <<EACUTE, CJK>>

Code(c) == CHOOSE i \in 1..Len(CodeOrder) : CodeOrder[i] = c

\* <char as Ord>::cmp: -1 Less, 0 Equal, 1 Greater
CharCmp(l, r) == IF Code(l) < Code(r) THEN -1 ELSE IF Code(l) > Code(r) THEN 1 ELSE 0

\* <str as Ord>::cmp: lexicographic on the bytes, which is code point order
RECURSIVE StrCmp(_, _)
StrCmp(a, b) ==
    IF a = <<>> /\ b = <<>> THEN 0
    ELSE IF a = <<>> THEN -1
    ELSE IF b = <<>> THEN 1
    ELSE IF CharCmp(Head(a), Head(b)) # 0 THEN CharCmp(Head(a), Head(b))
    ELSE StrCmp(Tail(a), Tail(b))

\* slice::sort on a vector of distinct strings
RECURSIVE SortStrings(_)
SortStrings(S) ==
    IF S = {} THEN <<>>
    ELSE LET m == CHOOSE x \in S : \A y \in S : StrCmp(x, y) <= 0
         IN <<m>> \o SortStrings(S \ {m})

(***************************************************************************)
(* Escaping                                                                *)
(***************************************************************************)
BACKSLASH == "\\"
DQUOTE == "\""

EscapeChar(c) ==
    IF c = BACKSLASH THEN <<BACKSLASH, BACKSLASH>>
    ELSE IF c = DQUOTE THEN <<BACKSLASH, DQUOTE>>
    ELSE IF c = "\n" THEN <<BACKSLASH, "n">>
    ELSE IF c = "\t" THEN <<BACKSLASH, "t">>
    ELSE IF c = "\r" THEN <<BACKSLASH, "r">>
    ELSE <<c>>

\* escaping::escape
RECURSIVE Escape(_)
Escape(s) == IF s = <<>> THEN <<>> ELSE EscapeChar(Head(s)) \o Escape(Tail(s))

\* escaping::unescape_except_double_quotes, the pass over an escaped piece on
\* its way into a quoted line: the piece leaves it in its on-disk form, each
\* two-character escape sequence kept as it is
RECURSIVE UnescapeExceptDoubleQuotes(_)
UnescapeExceptDoubleQuotes(s) ==
    IF s = <<>> THEN <<>>
    ELSE IF Head(s) = BACKSLASH /\ Len(s) >= 2
    THEN <<s[1], s[2]>> \o UnescapeExceptDoubleQuotes(SubSeq(s, 3, Len(s)))
    ELSE <<Head(s)>> \o UnescapeExceptDoubleQuotes(Tail(s))

\* escaping::unescape: Ok with the unescaped text, or the first failure
Ok(v) == [tag |-> "Ok", value |-> v]

EscapeAtEndOfString(text) ==
    [tag |-> "EscapeAtEndOfString", value |-> [text |-> text, character |-> <<>>]]

\* every failure reported as the end of the string
InvalidEscapedCharacter_as_end(text, character) ==
    [tag |-> "EscapeAtEndOfString", value |-> [text |-> text, character |-> <<>>]]

\* EscapingError::InvalidEscapedCharacter { text, character }
InvalidEscapedCharacter(text, character) ==
    [tag |-> "InvalidEscapedCharacter", value |-> [text |-> text, character |-> <<character>>]]

UnescapeChar(c) ==
    IF c = "n" THEN "\n" ELSE IF c = "t" THEN "\t" ELSE IF c = "r" THEN "\r" ELSE c

RECURSIVE UnescapeFrom(_, _, _)
UnescapeFrom(text, i, acc) ==
    IF i > Len(text) THEN Ok(acc)
    ELSE IF text[i] # BACKSLASH THEN UnescapeFrom(text, i + 1, Append(acc, text[i]))
    ELSE IF i = Len(text) THEN EscapeAtEndOfString(text)
    ELSE IF text[i + 1] \in {BACKSLASH, DQUOTE, "n", "t", "r"}
    THEN UnescapeFrom(text, i + 2, Append(acc, UnescapeChar(text[i + 1])))
    ELSE InvalidEscapedCharacter(text, text[i + 1])

Unescape(text) == UnescapeFrom(text, 1, <<>>)

(***************************************************************************)
(* Text wrapper                                                            *)
(***************************************************************************)
\* the line-breaking class (UAX #14) of the characters of the model's alphabet
BreakClass(c) ==
    IF c = " " THEN "SP"
    ELSE IF c = CJK THEN "ID"
    ELSE IF c = DQUOTE THEN "QU"
    ELSE IF c = BACKSLASH THEN "PR"
    ELSE IF c = ":" THEN "IS"
    ELSE "AL"

\* UAX #14 for these classes: is a break allowed between prev and next?
BreakAllowed(prev, next) ==
    LET p == BreakClass(prev)
        n == BreakClass(next)
    IN IF n = "SP" THEN FALSE
       ELSE IF p = "SP" THEN TRUE
       ELSE IF p = "QU" \/ n = "QU" THEN FALSE
       ELSE IF n = "IS" THEN FALSE
       ELSE IF p = "ID" \/ n = "ID" THEN p # "PR"
       ELSE IF n = "PR" THEN p \in {"PR", "IS"}
       ELSE FALSE

\* the byte offset at which character i of text starts (i in 1..Len(text)+1)
ByteOffset(text, i) == ByteSize(SubSeq(text, 1, i - 1))

\* the byte offsets of the break opportunities inside text, from character i on
RECURSIVE InnerBreaks(_, _)
InnerBreaks(text, i) ==
    IF i > Len(text) THEN <<>>
    ELSE (IF BreakAllowed(text[i - 1], text[i]) THEN <<ByteOffset(text, i)>> ELSE <<>>)
         \o InnerBreaks(text, i + 1)

\* unicode_linebreak::linebreaks: the byte offsets of the break opportunities,
\* ascending, the end of the text last
UnicodeLinebreaks(text) == InnerBreaks(text, 2) \o <<ByteSize(text)>>

\* the sum of char_indices_widths over the byte indices lo..hi-1
RECURSIVE WidthsIn(_, _, _, _)
WidthsIn(text, off, lo, hi) ==
    IF text = <<>> THEN 0
    ELSE (IF lo <= off /\ off < hi THEN CharWidth(Head(text)) ELSE 0)
         + WidthsIn(Tail(text), off + ByteLen(Head(text)), lo, hi)

\* get_linebreaks: the loop from break lbi on
RECURSIVE GetLinebreaksFrom(_, _, _, _, _, _)
GetLinebreaksFrom(linebreaks, text, wrapwidth, lbi, accum_char_index, last_break_width) ==
    IF lbi > Len(linebreaks) THEN <<>>
    ELSE LET lb == linebreaks[lbi]
             accum == accum_char_index + WidthsIn(text, 0, accum_char_index, lb)
         IN IF lbi = Len(linebreaks) THEN <<>>
            ELSE LET next_lb == linebreaks[lbi + 1]
                     partial == WidthsIn(text, 0, accum, next_lb) + accum
                     width == partial - last_break_width
                 IN IF width > wrapwidth
                    THEN <<lb>> \o GetLinebreaksFrom(linebreaks, text, wrapwidth, lbi + 1, accum, accum)
                    ELSE GetLinebreaksFrom(linebreaks, text, wrapwidth, lbi + 1, accum, last_break_width)

\* no opportunity is ever chosen
GetLinebreaks_none(linebreaks, text, wrapwidth) == <<>>

\* get_linebreaks
GetLinebreaks(linebreaks, text, wrapwidth) ==
    GetLinebreaksFrom(linebreaks, text, wrapwidth, 1, 0, 0)

\* &text[lo..hi], lo and hi byte offsets
RECURSIVE ByteSlice(_, _, _, _)
ByteSlice(text, off, lo, hi) ==
    IF text = <<>> THEN <<>>
    ELSE (IF lo <= off /\ off < hi THEN <<Head(text)>> ELSE <<>>)
         \o ByteSlice(Tail(text), off + ByteLen(Head(text)), lo, hi)

\* the pieces without the separators they end in
WrapPieces_trimmed(text, linebreaks, prev_lb) ==
    LET bounds == <<prev_lb>> \o linebreaks \o <<ByteSize(text)>>
    IN [k \in 1..(Len(linebreaks) + 1) |->
           TrimEnd(ByteSlice(text, 0, bounds[k], bounds[k + 1]))]

\* wrap: the loop over the chosen breaks and the trailing piece
RECURSIVE WrapPieces(_, _, _)
WrapPieces(text, linebreaks, prev_lb) ==
    IF linebreaks = <<>> THEN <<ByteSlice(text, 0, prev_lb, ByteSize(text))>>
    ELSE <<ByteSlice(text, 0, prev_lb, Head(linebreaks))>>
         \o WrapPieces(text, Tail(linebreaks), Head(linebreaks))

\* twrapper::wrap
Wrap(text, wrapwidth) ==
    WrapPieces(text, GetLinebreaks(UnicodeLinebreaks(text), text, wrapwidth), 0)

(***************************************************************************)
(* Entries                                                                 *)
(***************************************************************************)
FUZZY == <<"f", "u", "z", "z", "y">>

\* POEntry::new
NewPOEntry(linenum) ==
    [msgid |-> <<>>, msgstr |-> None, msgid_plural |-> None,
     msgstr_plural |-> EmptyMap, msgctxt |-> None, obsolete |-> FALSE,
     comment |-> None, tcomment |-> None, occurrences |-> <<>>,
     flags |-> <<>>, previous_msgctxt |-> None, previous_msgid |-> None,
     previous_msgid_plural |-> None, linenum |-> linenum]

\* POEntry::fuzzy
POEntry_fuzzy(e) == \E i \in 1..Len(e.flags) : e.flags[i] = FUZZY

\* <POEntry as Translated>::translated with its first test dropped
POEntry_translated_keeps_obsolete(e) ==
    IF POEntry_fuzzy(e) THEN FALSE
    ELSE IF IsSome(e.msgstr) THEN Unwrap(e.msgstr) # <<>>
    ELSE IF DOMAIN e.msgstr_plural = {} THEN FALSE
    ELSE \A k \in DOMAIN e.msgstr_plural : e.msgstr_plural[k] # <<>>

\* <POEntry as Translated>::translated
POEntry_translated(e) ==
    IF e.obsolete \/ POEntry_fuzzy(e) THEN FALSE
    ELSE IF IsSome(e.msgstr) THEN Unwrap(e.msgstr) # <<>>
    ELSE IF DOMAIN e.msgstr_plural = {} THEN FALSE
    ELSE \A k \in DOMAIN e.msgstr_plural : e.msgstr_plural[k] # <<>>

\* <MOEntry as Translated>::translated deciding on the plural map alone
MOEntry_translated_plural_only(m) ==
    IF IsSome(m.msgstr_plural)
    THEN LET p == Unwrap(m.msgstr_plural)
         IN DOMAIN p # {} /\ \A k \in DOMAIN p : p[k] # <<>>
    ELSE IF IsSome(m.msgstr) THEN Unwrap(m.msgstr) # <<>>
    ELSE FALSE

\* <MOEntry as Translated>::translated
MOEntry_translated(m) ==
    IF IsSome(m.msgstr) THEN Unwrap(m.msgstr) # <<>>
    ELSE IF IsSome(m.msgstr_plural)
    THEN LET p == Unwrap(m.msgstr_plural)
         IN IF DOMAIN p = {} THEN FALSE
            ELSE \A k \in DOMAIN p : p[k] # <<>>
    ELSE FALSE

\* <MOEntry as From<&POEntry>>::from losing the context
MOEntry_from_POEntry_no_ctxt(e) ==
    [msgid |-> e.msgid, msgstr |-> e.msgstr, msgid_plural |-> e.msgid_plural,
     msgstr_plural |-> IF DOMAIN e.msgstr_plural = {} THEN None
                       ELSE Some(e.msgstr_plural),
     msgctxt |-> None]

\* <MOEntry as From<&POEntry>>::from
MOEntry_from_POEntry(e) ==
    [msgid |-> e.msgid, msgstr |-> e.msgstr, msgid_plural |-> e.msgid_plural,
     msgstr_plural |-> IF DOMAIN e.msgstr_plural = {} THEN None
                       ELSE Some(e.msgstr_plural),
     msgctxt |-> e.msgctxt]

\* msgid_msgctxt_eot_split
msgid_msgctxt_eot_split(msgid, msgctxt) ==
    IF IsSome(msgctxt) THEN Unwrap(msgctxt) \o <<EOT>> \o msgid ELSE msgid

\* <POEntry as Merge>::merge: every field of self is overwritten by other's
POEntry_merge(self, other) ==
    [self EXCEPT !.msgid = other.msgid, !.msgstr = other.msgstr,
                 !.msgid_plural = other.msgid_plural,
                 !.msgstr_plural = other.msgstr_plural,
                 !.msgctxt = other.msgctxt, !.obsolete = other.obsolete,
                 !.comment = other.comment, !.tcomment = other.tcomment,
                 !.occurrences = other.occurrences, !.flags = other.flags,
                 !.previous_msgctxt = other.previous_msgctxt,
                 !.previous_msgid = other.previous_msgid,
                 !.previous_msgid_plural = other.previous_msgid_plural,
                 !.linenum = other.linenum]

(***************************************************************************)
(* Entries as PO text                                                      *)
(***************************************************************************)
\* the field laid out by the width of its value alone
POStringField_value_width_only(fieldname, delflag, value, plural_index, wrapwidth) ==
    LET escaped_value == Escape(value)
        repr_plural_index ==
            IF plural_index = <<>> THEN <<>>
            ELSE <<"[">> \o plural_index \o <<"]">>
        real_width == StrWidth(escaped_value)
        lines == IF real_width > wrapwidth
                 THEN <<<<>>>> \o Wrap(escaped_value, wrapwidth)
                 ELSE <<escaped_value>>
        first == delflag \o fieldname \o repr_plural_index \o Chars(" \"")
                 \o UnescapeExceptDoubleQuotes(lines[1]) \o Chars("\"\n")
    IN first \o Concat([i \in 1..(Len(lines) - 1) |->
                 delflag \o <<DQUOTE>>
                 \o UnescapeExceptDoubleQuotes(lines[i + 1]) \o Chars("\"\n")])

\* <POStringField as Display>::fmt
POStringField(fieldname, delflag, value, plural_index, wrapwidth) ==
    LET escaped_value == Escape(value)
        repr_plural_index ==
            IF plural_index = <<>> THEN <<>>
            ELSE <<"[">> \o plural_index \o <<"]">>
        real_width == StrWidth(escaped_value) + StrWidth(fieldname) + 1
        lines == IF real_width > wrapwidth
                 THEN <<<<>>>> \o Wrap(escaped_value, wrapwidth)
                 ELSE <<escaped_value>>
        first == delflag \o fieldname \o repr_plural_index \o Chars(" \"")
                 \o UnescapeExceptDoubleQuotes(lines[1]) \o Chars("\"\n")
    IN first \o Concat([i \in 1..(Len(lines) - 1) |->
                 delflag \o <<DQUOTE>>
                 \o UnescapeExceptDoubleQuotes(lines[i + 1]) \o Chars("\"\n")])

\* metadata_msgstr_formatter
metadata_msgstr_formatter(msgstr) ==
    LET ls == Lines(msgstr)
    IN Chars("msgstr \"\"\n")
       \o Concat([i \in 1..Len(ls) |->
              <<DQUOTE>> \o ls[i] \o <<BACKSLASH, "n", DQUOTE, "\n">>])

\* default_mo_entry_msgstr_formatter
default_mo_entry_msgstr_formatter(msgstr, delflag, wrapwidth) ==
    POStringField(Chars("msgstr"), delflag, TrimEnd(msgstr), <<>>, wrapwidth)

\* the msgstr_formatter argument, by name
msgstr_formatter(formatter, msgstr, delflag, wrapwidth) ==
    IF formatter = "metadata" THEN metadata_msgstr_formatter(msgstr)
    ELSE default_mo_entry_msgstr_formatter(msgstr, delflag, wrapwidth)

\* mo_entry_to_string_with_msgstr_formatter
mo_entry_to_string_with_msgstr_formatter(entry, wrapwidth, delflag, formatter) ==
    LET ctxt == IF IsSome(entry.msgctxt)
                THEN POStringField(Chars("msgctxt"), delflag,
                                   Unwrap(entry.msgctxt), <<>>, wrapwidth)
                ELSE <<>>
        id == POStringField(Chars("msgid"), delflag, entry.msgid, <<>>, wrapwidth)
        id_plural == IF IsSome(entry.msgid_plural)
                     THEN POStringField(Chars("msgid_plural"), delflag,
                                        Unwrap(entry.msgid_plural), <<>>, wrapwidth)
                     ELSE <<>>
        str == IF IsSome(entry.msgstr_plural)
               THEN LET msgstr_plural == Unwrap(entry.msgstr_plural)
                        indexes == SortStrings(DOMAIN msgstr_plural)
                    IN Concat([i \in 1..Len(indexes) |->
                           POStringField(Chars("msgstr"), delflag,
                                         msgstr_plural[indexes[i]],
                                         indexes[i], wrapwidth)])
               ELSE msgstr_formatter(formatter,
                        IF IsSome(entry.msgstr) THEN Unwrap(entry.msgstr) ELSE <<>>,
                        delflag, wrapwidth)
    IN ctxt \o id \o id_plural \o str

\* mo_entry_to_string
mo_entry_to_string(entry, wrapwidth, delflag) ==
    mo_entry_to_string_with_msgstr_formatter(entry, wrapwidth, delflag, "default")

\* mo_metadata_entry_to_string
mo_metadata_entry_to_string(entry) ==
    mo_entry_to_string_with_msgstr_formatter(entry, 78, <<>>, "metadata")

\* a usize past the width of every text: what wrapwidth - k wraps around to
\* when k > wrapwidth (a build with overflow checks panics there instead)
WrappedAround == 1000000

\* usize subtraction
UsizeSub(a, b) == IF a >= b THEN a - b ELSE WrappedAround

\* POEntry::format_comment_inplace, the text pushed onto target
format_comment_inplace(comment, prefix, wrapwidth) ==
    LET ls == Lines(comment)
    IN Concat([i \in 1..Len(ls) |->
           (IF GraphemeCount(ls[i]) + 2 > wrapwidth
            THEN Join(Wrap(ls[i], UsizeSub(wrapwidth, 2)), <<"\n">>)
            ELSE prefix \o ls[i])
           \o <<"\n">>])

\* the flags line written after the occurrences of an obsolete entry too, and
\* before the comments
POEntry_to_string_flags_first(self, wrapwidth) ==
    LET tcomment == IF IsSome(self.tcomment)
                    THEN format_comment_inplace(Unwrap(self.tcomment), Chars("#. "), wrapwidth)
                    ELSE <<>>
        comment == IF IsSome(self.comment)
                   THEN format_comment_inplace(Unwrap(self.comment), Chars("# "), wrapwidth)
                   ELSE <<>>
        files_repr == Join([i \in 1..Len(self.occurrences) |->
                          IF self.occurrences[i][2] = <<>> THEN self.occurrences[i][1]
                          ELSE self.occurrences[i][1] \o <<":">> \o self.occurrences[i][2]],
                          <<" ">>)
        wrapped == Wrap(files_repr, UsizeSub(wrapwidth, 3))
        occurrences ==
            IF ~self.obsolete /\ self.occurrences # <<>>
            THEN (IF GraphemeCount(files_repr) + 3 > wrapwidth
                  THEN Join([i \in 1..Len(wrapped) |-> Chars("#: ") \o wrapped[i]], <<"\n">>)
                  ELSE Chars("#: ") \o files_repr)
                 \o <<"\n">>
            ELSE <<>>
        flags == IF self.flags # <<>>
                 THEN Chars("#, ") \o Join(self.flags, Chars(", ")) \o <<"\n">>
                 ELSE <<>>
        prefix == <<"#">> \o (IF self.obsolete THEN <<"~">> ELSE <<>>) \o Chars("| ")
        previous_msgctxt ==
            IF IsSome(self.previous_msgctxt)
            THEN POStringField(Chars("msgctxt"), prefix,
                               Unwrap(self.previous_msgctxt), <<>>, wrapwidth)
            ELSE <<>>
        previous_msgid ==
            IF IsSome(self.previous_msgid)
            THEN POStringField(Chars("msgid"), prefix,
                               Unwrap(self.previous_msgid), <<>>, wrapwidth)
            ELSE <<>>
        previous_msgid_plural ==
            IF IsSome(self.previous_msgid_plural)
            THEN POStringField(Chars("msgid"), prefix,
                               Unwrap(self.previous_msgid_plural), <<>>, wrapwidth)
                 \o <<"\n">>
            ELSE <<>>
    IN flags \o tcomment \o comment \o occurrences
       \o previous_msgctxt \o previous_msgid \o previous_msgid_plural
       \o mo_entry_to_string(MOEntry_from_POEntry(self), wrapwidth,
                             IF self.obsolete THEN Chars("#~ ") ELSE <<>>)

\* POEntry::to_string_with_wrapwidth
POEntry_to_string_with_wrapwidth(self, wrapwidth) ==
    LET tcomment == IF IsSome(self.tcomment)
                    THEN format_comment_inplace(Unwrap(self.tcomment), Chars("#. "), wrapwidth)
                    ELSE <<>>
        comment == IF IsSome(self.comment)
                   THEN format_comment_inplace(Unwrap(self.comment), Chars("# "), wrapwidth)
                   ELSE <<>>
        files_repr == Join([i \in 1..Len(self.occurrences) |->
                          IF self.occurrences[i][2] = <<>> THEN self.occurrences[i][1]
                          ELSE self.occurrences[i][1] \o <<":">> \o self.occurrences[i][2]],
                          <<" ">>)
        wrapped == Wrap(files_repr, UsizeSub(wrapwidth, 3))
        occurrences ==
            IF ~self.obsolete /\ self.occurrences # <<>>
            THEN (IF GraphemeCount(files_repr) + 3 > wrapwidth
                  THEN Join([i \in 1..Len(wrapped) |-> Chars("#: ") \o wrapped[i]], <<"\n">>)
                  ELSE Chars("#: ") \o files_repr)
                 \o <<"\n">>
            ELSE <<>>
        flags == IF self.flags # <<>>
                 THEN Chars("#, ") \o Join(self.flags, Chars(", ")) \o <<"\n">>
                 ELSE <<>>
        prefix == <<"#">> \o (IF self.obsolete THEN <<"~">> ELSE <<>>) \o Chars("| ")
        previous_msgctxt ==
            IF IsSome(self.previous_msgctxt)
            THEN POStringField(Chars("msgctxt"), prefix,
                               Unwrap(self.previous_msgctxt), <<>>, wrapwidth)
            ELSE <<>>
        previous_msgid ==
            IF IsSome(self.previous_msgid)
            THEN POStringField(Chars("msgid"), prefix,
                               Unwrap(self.previous_msgid), <<>>, wrapwidth)
            ELSE <<>>
        previous_msgid_plural ==
            IF IsSome(self.previous_msgid_plural)
            THEN POStringField(Chars("msgid"), prefix,
                               Unwrap(self.previous_msgid_plural), <<>>, wrapwidth)
                 \o <<"\n">>
            ELSE <<>>
    IN tcomment \o comment \o occurrences \o flags
       \o previous_msgctxt \o previous_msgid \o previous_msgid_plural
       \o mo_entry_to_string(MOEntry_from_POEntry(self), wrapwidth,
                             IF self.obsolete THEN Chars("#~ ") ELSE <<>>)

\* <POEntry as Display>::fmt
POEntry_to_string(self) == POEntry_to_string_with_wrapwidth(self, 78)

(***************************************************************************)
(* POFile: queries and mutation                                            *)
(***************************************************************************)
\* Iterator::position / Iterator::find over the tests' answers: the index of
\* the first TRUE, 0 if none
FirstTrue(hits) ==
    IF \E i \in 1..Len(hits) : hits[i]
    THEN CHOOSE i \in 1..Len(hits) : hits[i] /\ \A j \in 1..(i - 1) : ~hits[j]
    ELSE 0

\* POFile::find_by_msgid: a clone of the first entry with that msgid
POFile_find_by_msgid(entries, msgid) ==
    LET i == FirstTrue([k \in 1..Len(entries) |-> entries[k].msgid = msgid])
    IN IF i = 0 THEN None ELSE Some(entries[i])

\* the search in which an absent context matches no msgctxt
POFile_find_by_msgid_msgctxt_present(entries, msgid, msgctxt) ==
    LET i == FirstTrue([k \in 1..Len(entries) |->
                 entries[k].msgid = msgid /\ entries[k].msgctxt = Some(msgctxt)])
    IN IF i = 0 THEN None ELSE Some(entries[i])

\* POFile::find_by_msgid_msgctxt: an absent context reads as ""
POFile_find_by_msgid_msgctxt(entries, msgid, msgctxt) ==
    LET ctx(e) == IF IsSome(e.msgctxt) THEN Unwrap(e.msgctxt) ELSE <<>>
        i == FirstTrue([k \in 1..Len(entries) |->
                 entries[k].msgid = msgid /\ ctx(entries[k]) = msgctxt])
    IN IF i = 0 THEN None ELSE Some(entries[i])

\* the removal of every occurrence
POFile_remove_every(entries, entry) ==
    LET differs(e) == e # entry
    IN SelectSeq(entries, differs)

\* POFile::remove: only the first occurrence
POFile_remove(entries, entry) ==
    LET i == FirstTrue([k \in 1..Len(entries) |-> entries[k] = entry])
    IN IF i = 0 THEN entries
       ELSE SubSeq(entries, 1, i - 1) \o SubSeq(entries, i + 1, Len(entries))

\* POFile::translated_entries
POFile_translated_entries(entries) == SelectSeq(entries, POEntry_translated)

\* <POFile as Merge>::merge, the body of the first loop for one other_entry:
\* the entry that find_* returns is a clone, and it is the clone that is merged
MergeOne(entries, other_entry) ==
    LET found == IF IsSome(other_entry.msgctxt)
                 THEN POFile_find_by_msgid_msgctxt(
                          entries, other_entry.msgid, Unwrap(other_entry.msgctxt))
                 ELSE POFile_find_by_msgid(entries, other_entry.msgid)
    IN IF IsSome(found)
       THEN LET entry == POEntry_merge(Unwrap(found), other_entry)
            IN entries
       ELSE Append(entries, POEntry_merge(NewPOEntry(0), other_entry))

RECURSIVE MergeLoop(_, _)
MergeLoop(entries, others) ==
    IF others = <<>> THEN entries
    ELSE MergeLoop(MergeOne(entries, Head(others)), Tail(others))

\* the second loop of merge, marking by msgid and msgctxt
MarkObsolete_by_ctxt(entries, others) ==
    [i \in 1..Len(entries) |->
        IF \E j \in 1..Len(others) :
               others[j].msgid = entries[i].msgid /\ others[j].msgctxt = entries[i].msgctxt
        THEN entries[i]
        ELSE [entries[i] EXCEPT !.obsolete = TRUE]]

\* <POFile as Merge>::merge, the second loop
MarkObsolete(entries, others) ==
    [i \in 1..Len(entries) |->
        IF POFile_find_by_msgid(others, entries[i].msgid) = None
        THEN [entries[i] EXCEPT !.obsolete = TRUE]
        ELSE entries[i]]

\* <POFile as Merge>::merge
POFile_merge(entries, others) == MarkObsolete(MergeLoop(entries, others), others)

(***************************************************************************)
(* Metadata in its output order                                            *)
(***************************************************************************)
METADATA_KEYS_ORDER ==
    << Chars("Project-Id-Version"), Chars("Report-Msgid-Bugs-To"),
       Chars("POT-Creation-Date"), Chars("PO-Revision-Date"),
       Chars("Last-Translator"), Chars("Language-Team"), Chars("Language"),
       Chars("MIME-Version"), Chars("Content-Type"),
       Chars("Content-Transfer-Encoding"), Chars("Plural-Forms") >>

\* char::to_digit(10) is Some
IsDigit(c) == c \in {"0", "1", "2", "3", "4", "5", "6", "7", "8", "9"}

RECURSIVE SkipWhitespace(_)
SkipWhitespace(s) ==
    IF s # <<>> /\ IsWhitespace(Head(s)) THEN SkipWhitespace(Tail(s)) ELSE s

\* natord::compare_iter: the loop over non-digits, the left-aligned loop over a
\* digit run one of whose sides starts with 0, and the right-aligned loop over
\* a digit run neither side of which does; -1 Less, 0 Equal, 1 Greater
RECURSIVE NatNonDigits(_, _)
RECURSIVE NatDigitsLeft(_, _)
RECURSIVE NatDigitsRight(_, _, _)
NatNonDigits(left, right) ==
    LET l == SkipWhitespace(left)
        r == SkipWhitespace(right)
    IN IF l = <<>> /\ r = <<>> THEN 0
       ELSE IF r = <<>> THEN 1
       ELSE IF l = <<>> THEN -1
       ELSE IF IsDigit(l[1]) /\ IsDigit(r[1])
       THEN IF l[1] = "0" \/ r[1] = "0"
            THEN IF CharCmp(l[1], r[1]) # 0 THEN CharCmp(l[1], r[1])
                 ELSE NatDigitsLeft(Tail(l), Tail(r))
            ELSE NatDigitsRight(Tail(l), Tail(r), CharCmp(l[1], r[1]))
       ELSE IF CharCmp(l[1], r[1]) # 0 THEN CharCmp(l[1], r[1])
       ELSE NatNonDigits(Tail(l), Tail(r))

NatDigitsLeft(l, r) ==
    LET ld == l # <<>> /\ IsDigit(l[1])
        rd == r # <<>> /\ IsDigit(r[1])
    IN IF ld /\ rd
       THEN IF CharCmp(l[1], r[1]) # 0 THEN CharCmp(l[1], r[1])
            ELSE NatDigitsLeft(Tail(l), Tail(r))
       ELSE IF ld THEN 1
       ELSE IF rd THEN -1
       ELSE NatNonDigits(l, r)

NatDigitsRight(l, r, lastcmp) ==
    LET ld == l # <<>> /\ IsDigit(l[1])
        rd == r # <<>> /\ IsDigit(r[1])
    IN IF ld /\ rd
       THEN NatDigitsRight(Tail(l), Tail(r),
                IF lastcmp = 0 THEN CharCmp(l[1], r[1]) ELSE lastcmp)
       ELSE IF ld THEN 1
       ELSE IF rd THEN -1
       ELSE IF lastcmp # 0 THEN lastcmp
       ELSE NatNonDigits(l, r)

\* the comparison by bytes in the place of the natural one
compare_bytewise(a, b) == StrCmp(a, b)

\* natord::compare, imported as compare_natural_order
compare_natural_order(a, b) == NatNonDigits(a, b)

\* slice::sort_by, one insertion: x moves left past every element it is less than
RECURSIVE InsertTail(_, _)
InsertTail(sorted, x) ==
    IF sorted = <<>> \/ compare_natural_order(x, sorted[Len(sorted)]) >= 0
    THEN Append(sorted, x)
    ELSE Append(InsertTail(SubSeq(sorted, 1, Len(sorted) - 1), x), sorted[Len(sorted)])

\* slice::sort_by(compare_natural_order), stable
RECURSIVE SortByNaturalOrder(_)
SortByNaturalOrder(keys) ==
    IF keys = <<>> THEN <<>>
    ELSE InsertTail(SortByNaturalOrder(SubSeq(keys, 1, Len(keys) - 1)), keys[Len(keys)])

IsCanonicalKey(key) == \E i \in 1..Len(METADATA_KEYS_ORDER) : METADATA_KEYS_ORDER[i] = key

\* the keys of seq that are in the map (keep = TRUE) or are not canonical (keep = FALSE)
RECURSIVE FilterKeys(_, _, _)
FilterKeys(seq, metadata, keep) ==
    IF seq = <<>> THEN <<>>
    ELSE (IF (keep /\ Head(seq) \in DOMAIN metadata) \/ (~keep /\ ~IsCanonicalKey(Head(seq)))
          THEN <<Head(seq)>> ELSE <<>>)
         \o FilterKeys(Tail(seq), metadata, keep)

\* metadata_hashmap_to_ordered; keys is metadata.keys() in the order the
\* HashMap happens to iterate
metadata_hashmap_to_ordered(metadata, keys) ==
    LET first == FilterKeys(METADATA_KEYS_ORDER, metadata, TRUE)
        metadata_keys == SortByNaturalOrder(keys)
        rest == FilterKeys(metadata_keys, metadata, FALSE)
        all == first \o rest
    IN [i \in 1..Len(all) |-> <<all[i], metadata[all[i]]>>]

\* metadata_hashmap_to_msgstr
metadata_hashmap_to_msgstr(metadata, keys) ==
    LET ordered == metadata_hashmap_to_ordered(metadata, keys)
        msgstr == Concat([i \in 1..Len(ordered) |->
                      ordered[i][1] \o Chars(": ") \o ordered[i][2] \o <<"\n">>])
    IN IF msgstr = <<>> THEN msgstr ELSE SubSeq(msgstr, 1, Len(msgstr) - 1)

(***************************************************************************)
(* POFile as PO text                                                       *)
(***************************************************************************)
\* POFile::metadata_as_entry
POFile_metadata_as_entry(self, keys) ==
    [NewPOEntry(0) EXCEPT
        !.flags = IF self.metadata_is_fuzzy THEN <<FUZZY>> ELSE <<>>,
        !.msgstr = IF DOMAIN self.metadata # {}
                   THEN Some(metadata_hashmap_to_msgstr(self.metadata, keys))
                   ELSE None]

\* every entry in catalog order, obsolete or not, in the first group
EntriesRepr_catalog_order(entries, obsolete) ==
    IF obsolete THEN <<>>
    ELSE Concat([i \in 1..Len(entries) |-> POEntry_to_string(entries[i]) \o <<"\n">>])

\* <POFile as Display>::fmt, the entries of one kind with a "\n" after each
RECURSIVE EntriesRepr(_, _)
EntriesRepr(entries, obsolete) ==
    IF entries = <<>> THEN <<>>
    ELSE (IF Head(entries).obsolete = obsolete
          THEN POEntry_to_string(Head(entries)) \o <<"\n">> ELSE <<>>)
         \o EntriesRepr(Tail(entries), obsolete)

\* <POFile as Display>::fmt
POFile_to_string(self, keys) ==
    LET hl == IF IsSome(self.header) THEN Lines(Unwrap(self.header)) ELSE <<>>
        header_repr == Concat([i \in 1..Len(hl) |->
                           IF hl[i] = <<>> THEN Chars("#\n")
                           ELSE Chars("# ") \o hl[i] \o <<"\n">>])
        text == header_repr
                \o mo_metadata_entry_to_string(
                       MOEntry_from_POEntry(POFile_metadata_as_entry(self, keys)))
                \o <<"\n">>
                \o EntriesRepr(self.entries, FALSE)
                \o EntriesRepr(self.entries, TRUE)
    IN SubSeq(text, 1, Len(text) - 1)

(***************************************************************************)
(* MOFile from POFile                                                      *)
(***************************************************************************)
\* <MOFile as From<&POFile>>::from: the translated entries, converted, and the metadata
MOFile_from_POFile(f) ==
    LET t == POFile_translated_entries(f.entries)
    IN [entries |-> [i \in 1..Len(t) |-> MOEntry_from_POEntry(t[i])],
        metadata |-> f.metadata]

(***************************************************************************)
(* MOFile to its string tables and back                                    *)
(***************************************************************************)
\* str::split(c)
RECURSIVE SplitOn(_, _, _)
SplitOn(s, c, cur) ==
    IF s = <<>> THEN <<cur>>
    ELSE IF Head(s) = c THEN <<cur>> \o SplitOn(Tail(s), c, <<>>)
    ELSE SplitOn(Tail(s), c, Append(cur, Head(s)))

Contains(s, c) == \E i \in 1..Len(s) : s[i] = c

\* the value of a string of decimal digits
RECURSIVE DecimalValue(_)
DecimalValue(digits) ==
    IF digits = <<>> THEN 0
    ELSE 10 * DecimalValue(SubSeq(digits, 1, Len(digits) - 1))
         + (Code(digits[Len(digits)]) - Code("0"))

\* usize::to_string
RECURSIVE DecimalString(_)
DecimalString(n) ==
    IF n < 10 THEN <<CodeOrder[Code("0") + n]>>
    ELSE DecimalString(n \div 10) \o <<CodeOrder[Code("0") + (n % 10)]>>

\* the plural indices in ascending order of their value
RECURSIVE IndicesAscending(_)
IndicesAscending(S) ==
    IF S = {} THEN <<>>
    ELSE LET m == CHOOSE x \in S : \A y \in S : DecimalValue(x) <= DecimalValue(y)
         IN <<m>> \o IndicesAscending(S \ {m})

\* the MO writer, one entry: its original and its translated string
MOEntry_strings(entry) ==
    LET key == msgid_msgctxt_eot_split(entry.msgid, entry.msgctxt)
        original == IF IsSome(entry.msgid_plural)
                    THEN key \o <<NUL>> \o Unwrap(entry.msgid_plural)
                    ELSE key
        plural == Unwrap(entry.msgstr_plural)
        indexes == IndicesAscending(DOMAIN plural)
        translated == IF IsSome(entry.msgstr_plural)
                      THEN Join([i \in 1..Len(indexes) |-> plural[indexes[i]]], <<NUL>>)
                      ELSE IF IsSome(entry.msgstr) THEN Unwrap(entry.msgstr)
                      ELSE <<>>
    IN <<key, original, translated>>

\* the MO writer's sort by the msgctxt + EOT + msgid key, one insertion
RECURSIVE InsertByKey(_, _)
InsertByKey(sorted, x) ==
    IF sorted = <<>> \/ StrCmp(x[1], sorted[Len(sorted)][1]) >= 0
    THEN Append(sorted, x)
    ELSE Append(InsertByKey(SubSeq(sorted, 1, Len(sorted) - 1), x), sorted[Len(sorted)])

RECURSIVE SortByKey(_)
SortByKey(xs) ==
    IF xs = <<>> THEN <<>>
    ELSE InsertByKey(SortByKey(SubSeq(xs, 1, Len(xs) - 1)), xs[Len(xs)])

\* the MO writer: the metadata entry and the translated entries, sorted by
\* key, as pairs of an original and a translated string
MOFile_string_tables(mo, keys) ==
    CHOOSE tables \in
        {[i \in 1..Len(all) |-> <<all[i][2], all[i][3]>>] :
            all \in {SortByKey(unsorted) :
                        unsorted \in {<<<<<<>>, <<>>, metadata_msgstr>>>>
                                      \o [i \in 1..Len(translated) |->
                                             MOEntry_strings(translated[i])] :
                                         metadata_msgstr \in
                                             {metadata_hashmap_to_msgstr(mo.metadata, keys)},
                                         translated \in
                                             {SelectSeq(mo.entries, MOEntry_translated)}}}} :
            TRUE

\* the MO reader, one pair of strings
MOEntry_from_strings(original, translated) ==
    LET by_eot == SplitOn(original, EOT, <<>>)
        msgctxt == IF Contains(original, EOT) THEN Some(by_eot[1]) ELSE None
        rest == IF Contains(original, EOT)
                THEN Join(SubSeq(by_eot, 2, Len(by_eot)), <<EOT>>)
                ELSE original
        by_nul == SplitOn(rest, NUL, <<>>)
        values == SplitOn(translated, NUL, <<>>)
    IN [msgid |-> by_nul[1],
        msgid_plural |-> IF Contains(rest, NUL)
                         THEN Some(Join(SubSeq(by_nul, 2, Len(by_nul)), <<NUL>>))
                         ELSE None,
        msgctxt |-> msgctxt,
        msgstr |-> IF Contains(translated, NUL) THEN None ELSE Some(translated),
        msgstr_plural |->
            IF Contains(translated, NUL)
            THEN Some([k \in {DecimalString(i - 1) : i \in 1..Len(values)} |->
                          values[DecimalValue(k) + 1]])
            ELSE None]

HasColon(line) == Contains(line, ":")

\* the MO reader, the metadata entry's msgstr: its "Key: Value" lines
MetadataFromMsgstr(msgstr) ==
    LET ls == SelectSeq(Lines(msgstr), HasColon)
        key(l) == SplitOn(l, ":", <<>>)[1]
        value(l) == LET v == SubSeq(l, Len(key(l)) + 2, Len(l))
                    IN IF v # <<>> /\ v[1] = " " THEN Tail(v) ELSE v
    IN [k \in {key(ls[i]) : i \in 1..Len(ls)} |->
           value(ls[CHOOSE i \in 1..Len(ls) : key(ls[i]) = k])]

IsMetadataEntry(m) == m.msgid = <<>>

IsCatalogEntry(m) == m.msgid # <<>>

\* the MO reader: the pair with the empty msgid is the metadata, the others
\* are the entries
MOFile_from_string_tables(tables) ==
    LET decoded == [i \in 1..Len(tables) |->
                       MOEntry_from_strings(tables[i][1], tables[i][2])]
        headers == SelectSeq(decoded, IsMetadataEntry)
    IN [entries |-> SelectSeq(decoded, IsCatalogEntry),
        metadata |-> IF headers = <<>> THEN EmptyMap
                     ELSE MetadataFromMsgstr(Unwrap(headers[1].msgstr))]

(***************************************************************************)
(* MOFile as bytes and back                                                *)
(***************************************************************************)
\* a u32 as the pair of its high and its low 16 bits
U32(hi, lo) == <<hi, lo>>

\* 0x950412de and 0xde120495
MAGIC == U32(38148, 4830)
MAGIC_SWAPPED == U32(56850, 1173)

\* every byte taken from the low half, the shifts by 16 and 24 left out
as_u8_array_le_low_half(num) ==
    <<num[2] % 256, num[2] \div 256, num[2] % 256, num[2] \div 256>>

\* bitwise::as_u8_array_le
as_u8_array_le(num) ==
    <<num[2] % 256, num[2] \div 256, num[1] % 256, num[1] \div 256>>

\* the bytes in little-endian order whatever the file's endianness
as_u8_array_be_unswapped(num) == as_u8_array_le(num)

\* bitwise::as_u8_array_be
as_u8_array_be(num) ==
    <<num[1] \div 256, num[1] % 256, num[2] \div 256, num[2] % 256>>

\* bitwise::as_u32_le
as_u32_le(array) ==
    U32(array[4] * 256 + array[3], array[2] * 256 + array[1])

\* the little-endian reading in the place of the big-endian one
as_u32_be_unswapped(array) == as_u32_le(array)

\* bitwise::as_u32_be
as_u32_be(array) ==
    U32(array[1] * 256 + array[2], array[3] * 256 + array[4])

\* a length or an offset as a u32
Word(n) == U32(n \div 65536, n % 65536)

\* rspolib_testing::create_binary_content
RECURSIVE create_binary_content(_, _)
create_binary_content(data, le) ==
    IF data = <<>> THEN <<>>
    ELSE (IF le THEN as_u8_array_le(Head(data)) ELSE as_u8_array_be(Head(data)))
         \o create_binary_content(Tail(data), le)

\* the start of each string of a sequence packed from offset on, each string
\* followed by a NUL byte
RECURSIVE Offsets(_, _)
Offsets(strings, offset) ==
    IF strings = <<>> THEN <<>>
    ELSE <<offset>> \o Offsets(Tail(strings), offset + Len(Head(strings)) + 1)

\* the bytes of a catalog whose originals and translations are tables: the
\* header, the table of the originals, the table of the translations, the
\* originals and the translations
StringTablesAsBytes(tables, magic_number, revision_number) ==
    LET n == Len(tables)
        le == magic_number = MAGIC
        originals == [i \in 1..n |-> tables[i][1]]
        translations == [i \in 1..n |-> tables[i][2]]
        body == Concat([i \in 1..n |-> originals[i] \o <<NUL>>])
                \o Concat([i \in 1..n |-> translations[i] \o <<NUL>>])
        ostart == Offsets(originals, 28 + 16 * n)
        tstart == Offsets(translations,
                          28 + 16 * n + Len(Concat([i \in 1..n |-> originals[i] \o <<NUL>>])))
        otable == Concat([i \in 1..n |-> <<Word(Len(originals[i])), Word(ostart[i])>>])
        ttable == Concat([i \in 1..n |-> <<Word(Len(translations[i])), Word(tstart[i])>>])
    IN as_u8_array_le(magic_number)
       \o create_binary_content(<<revision_number, Word(n), Word(28), Word(28 + 8 * n),
                                  Word(0), Word(0)>> \o otable \o ttable, le)
       \o body

\* MOFile::as_bytes_with: the string tables of the catalog written as bytes,
\* every integer after the magic number in the byte order the magic number
\* names
MOFile_as_bytes_with(mo, keys, magic_number, revision_number) ==
    CHOOSE bytes \in {StringTablesAsBytes(tables, magic_number, revision_number) :
                         tables \in {MOFile_string_tables(mo, keys)}} : TRUE

\* <POFile as AsBytes>::as_bytes_le (and as_bytes)
POFile_as_bytes_le(self, keys) ==
    MOFile_as_bytes_with(MOFile_from_POFile(self), keys, MAGIC, Word(0))

\* <POFile as AsBytes>::as_bytes_be
POFile_as_bytes_be(self, keys) ==
    MOFile_as_bytes_with(MOFile_from_POFile(self), keys, MAGIC_SWAPPED, Word(0))

ErrorReadingMagicNumber == [tag |-> "Err", value |-> [kind |-> "ErrorReadingMagicNumber"]]

IncorrectMagicNumber(magic_number_le, magic_number_be) ==
    [tag |-> "Err", value |-> [kind |-> "IncorrectMagicNumber",
                               magic_number_le |-> magic_number_le,
                               magic_number_be |-> magic_number_be]]

UnsupportedMORevisionNumber(version) ==
    [tag |-> "Err", value |-> [kind |-> "UnsupportedMORevisionNumber", version |-> version]]

CorruptedMOData(context) ==
    [tag |-> "Err", value |-> [kind |-> "CorruptedMOData", context |-> context]]

\* the revision check with the low 16 bits ignored
SupportedRevision_by_major(version) == version[1] \in {0, 1}

\* the revision number is one the reader expects: 0 or 1
SupportedRevision(version) == version \in {Word(0), Word(1)}

\* the k-th integer of the header or of a table that starts at byte offset
ReadWord(bytes, offset, k, le) ==
    LET array == SubSeq(bytes, offset + 4 * k + 1, offset + 4 * k + 4)
    IN IF le THEN as_u32_le(array) ELSE as_u32_be(array)

\* the value of a u32 that lies within the buffer, or one past its end
Within(bytes, word) == IF word[1] = 0 /\ word[2] <= Len(bytes) THEN word[2] ELSE Len(bytes) + 1

\* the MO reader, the tables: the i-th original and translation, or <<>> if a
\* table entry or a string lies beyond the buffer
ReadPair(bytes, otable, ttable, i, le) ==
    LET str(table) ==
            IF table + 8 * i > Len(bytes) THEN <<>>
            ELSE LET length == Within(bytes, ReadWord(bytes, table, 2 * (i - 1), le))
                     offset == Within(bytes, ReadWord(bytes, table, 2 * (i - 1) + 1, le))
                 IN IF offset + length > Len(bytes) THEN <<>>
                    ELSE <<SubSeq(bytes, offset + 1, offset + length)>>
    IN IF str(otable) = <<>> \/ str(ttable) = <<>> THEN <<>>
       ELSE <<<<str(otable)[1], str(ttable)[1]>>>>

\* MOFileParser::parse: the magic number, the revision, the number of strings,
\* the offsets of the two tables, the strings
MOFileParser_parse(bytes) ==
    IF Len(bytes) < 4 THEN ErrorReadingMagicNumber
    ELSE LET magic_number_le == as_u32_le(SubSeq(bytes, 1, 4))
             magic_number_be == as_u32_be(SubSeq(bytes, 1, 4))
             le == magic_number_le = MAGIC
             version == ReadWord(bytes, 0, 1, le)
             n == Within(bytes, ReadWord(bytes, 0, 2, le))
             otable == Within(bytes, ReadWord(bytes, 0, 3, le))
             ttable == Within(bytes, ReadWord(bytes, 0, 4, le))
             pairs == [i \in 1..n |-> ReadPair(bytes, otable, ttable, i, le)]
         IN IF magic_number_le # MAGIC /\ magic_number_le # MAGIC_SWAPPED
            THEN IncorrectMagicNumber(magic_number_le, magic_number_be)
            ELSE IF Len(bytes) < 8
            THEN CorruptedMOData("parsing revision number")
            ELSE IF ~SupportedRevision(version)
            THEN UnsupportedMORevisionNumber(version)
            ELSE IF Len(bytes) < 12
            THEN CorruptedMOData("parsing number of strings")
            ELSE IF Len(bytes) < 20
            THEN CorruptedMOData("parsing tables offsets")
            ELSE IF \E i \in 1..n : pairs[i] = <<>>
            THEN CorruptedMOData("parsing strings")
            ELSE Ok(MOFile_from_string_tables([i \in 1..n |-> pairs[i][1]]))

(***************************************************************************)
(* The catalog as a state machine: append, remove, merge, convert          *)
(***************************************************************************)
MaxEntries == 2

SA == <<"a">>
SB == <<"b">>
SC == <<"c">>
SX == <<"x">>
SY == <<"y">>
IDX0 == <<"0">>
IDX1 == <<"1">>

\* a translated plural entry; the same msgid under a context, translated; the
\* same msgid under the context "", untranslated; a fuzzy entry; an obsolete entry
CatalogEntries ==
    LET base == NewPOEntry(0)
    IN { [base EXCEPT !.msgid = SA, !.msgid_plural = Some(SB),
                      !.msgstr_plural = (IDX0 :> SX) @@ (IDX1 :> SY)],
         [base EXCEPT !.msgid = SA, !.msgstr = Some(SY), !.msgctxt = Some(SC),
                      !.linenum = 4],
         [base EXCEPT !.msgid = SA, !.msgstr = Some(<<>>), !.msgctxt = Some(<<>>)],
         [base EXCEPT !.msgid = SB, !.msgstr = Some(SX), !.flags = <<FUZZY>>],
         [base EXCEPT !.msgid = SB, !.msgstr = Some(SX), !.obsolete = TRUE] }

\* the entries of the catalog merged in: the same identities with other values,
\* and one msgid the catalog never holds
OtherEntries ==
    LET base == NewPOEntry(0)
    IN { [base EXCEPT !.msgid = SA, !.msgstr = Some(SY), !.linenum = 7],
         [base EXCEPT !.msgid = SA, !.msgstr = Some(SX), !.msgctxt = Some(SC)],
         [base EXCEPT !.msgid = SC, !.msgstr = Some(SX), !.msgctxt = Some(<<>>),
                      !.obsolete = TRUE] }

SeqsUpTo(S, n) == UNION {[1..k -> S] : k \in 0..n}

LANGUAGE == <<"L", "a", "n", "g", "u", "a", "g", "e">>

CatalogMetadata == {(LANGUAGE :> <<"e", "s">>)}

\* a canonical key and another
TextMetadata == (LANGUAGE :> Chars("es")) @@ (Chars("X-2") :> SX)

\* a metadata map with two keys that differ by a space only
SpacedMetadata == (Chars("X-7") :> SX) @@ (Chars("X- 7") :> SY)

\* the orders in which a HashMap with the keys S can iterate
Perms(S) ==
    {p \in [1..Cardinality(S) -> S] : \A i, j \in 1..Cardinality(S) : p[i] = p[j] => i = j}

NewPOFile(entries, metadata, wrapwidth) ==
    [header |-> None, metadata |-> metadata, metadata_is_fuzzy |-> FALSE,
     entries |-> entries, wrapwidth |-> wrapwidth]

Init ==
    /\ \E m \in CatalogMetadata : file = NewPOFile(<<>>, m, 78)
    /\ arg = <<>>
    /\ pre = <<>>
    /\ op = "new"
    /\ ret = <<>>

\* self.entries.push(entry)
DoAppend ==
    \E e \in CatalogEntries :
        /\ Len(file.entries) < MaxEntries
        /\ file' = [file EXCEPT !.entries = Append(@, e)]
        /\ arg' = e
        /\ pre' = file.entries
        /\ op' = "append"
        /\ ret' = <<>>

\* self.remove(&entry)
DoRemove ==
    \E e \in CatalogEntries :
        /\ file.entries # <<>>
        /\ Len(file.entries) <= MaxEntries
        /\ file' = [file EXCEPT !.entries = POFile_remove(@, e)]
        /\ arg' = e
        /\ pre' = file.entries
        /\ op' = "remove"
        /\ ret' = <<>>

\* self.merge(other)
DoMerge ==
    \E others \in SeqsUpTo(OtherEntries, MaxEntries) :
        /\ Len(file.entries) <= MaxEntries
        /\ file' = [file EXCEPT !.entries = POFile_merge(@, others)]
        /\ arg' = others
        /\ pre' = file.entries
        /\ op' = "merge"
        /\ ret' = <<>>

Next == DoAppend \/ DoRemove \/ DoMerge

Spec == Init /\ [][Next]_vars

(***************************************************************************)
(* Merge                                                                   *)
(***************************************************************************)
CtxOrEmpty(e) == IF IsSome(e.msgctxt) THEN Unwrap(e.msgctxt) ELSE <<>>

\* e of other matches s of self: by msgid and msgctxt when e has a context,
\* otherwise by msgid
Matches(s, e) ==
    /\ s.msgid = e.msgid
    /\ IsSome(e.msgctxt) => CtxOrEmpty(s) = Unwrap(e.msgctxt)

HeldMatch(e) == \E i \in 1..Len(pre) : Matches(pre[i], e)

FirstMatch(e) == FirstTrue([i \in 1..Len(pre) |-> Matches(pre[i], e)])

\* C4: after self.merge(other), for every entry e of other: the entry of self
\* that matched e has all of e's field values (e being the last entry of other
\* that matched it), and with no match a copy of e is at the end of self.entries,
\* after the entries self held, in other's order.
C4_MergeUpdatesOrAppends ==
    op = "merge" =>
        /\ Len(file.entries) >= Len(pre)
        /\ \A j \in 1..Len(arg) :
              IF HeldMatch(arg[j])
              THEN (\A k \in (j + 1)..Len(arg) :
                        HeldMatch(arg[k]) => FirstMatch(arg[k]) # FirstMatch(arg[j]))
                   => file.entries[FirstMatch(arg[j])] = arg[j]
              ELSE \E i \in (Len(pre) + 1)..Len(file.entries) :
                       file.entries[i] = arg[j]

\* C5: after self.merge(other), every entry of self whose msgid is the msgid of
\* no entry of other is obsolete, and every entry whose msgid occurs in other
\* is exactly as the first loop of merge left it (msgctxt plays no part).
C5_MergeMarksObsolete ==
    op = "merge" =>
        LET merged == MergeLoop(pre, arg)
        IN /\ Len(file.entries) = Len(merged)
           /\ \A i \in 1..Len(file.entries) :
                 IF \E j \in 1..Len(arg) : arg[j].msgid = file.entries[i].msgid
                 THEN file.entries[i] = merged[i]
                 ELSE /\ file.entries[i].obsolete
                      /\ file.entries[i] = [merged[i] EXCEPT !.obsolete = TRUE]

\* a merge marked a live entry obsolete and left alone a live entry whose msgid
\* occurs in other under another context only
C5_Witness ==
    /\ op = "merge"
    /\ \E i \in 1..Len(pre) : ~pre[i].obsolete /\ file.entries[i].obsolete
    /\ \E i \in 1..Len(pre) :
          /\ ~file.entries[i].obsolete
          /\ \E j \in 1..Len(arg) : arg[j].msgid = pre[i].msgid
          /\ \A j \in 1..Len(arg) : arg[j].msgctxt # pre[i].msgctxt

(***************************************************************************)
(* POFile to MOFile, directly and through the MO string tables             *)
(***************************************************************************)
\* a translated plural entry; a translated entry under a context; a translated
\* plural entry whose indices have gaps; an untranslated, a fuzzy and an
\* obsolete entry
MOCatalogEntries ==
    LET base == NewPOEntry(0)
    IN { [base EXCEPT !.msgid = SA, !.msgid_plural = Some(SB),
                      !.msgstr_plural = (IDX0 :> SX) @@ (IDX1 :> SY)],
         [base EXCEPT !.msgid = SA, !.msgstr = Some(SY), !.msgctxt = Some(SC)],
         [base EXCEPT !.msgid = SB, !.msgid_plural = Some(SA),
                      !.msgstr_plural = (IDX1 :> SX) @@ (Chars("10") :> SY)],
         [base EXCEPT !.msgid = SA, !.msgstr = Some(<<>>), !.msgctxt = Some(<<>>)],
         [base EXCEPT !.msgid = SB, !.msgstr = Some(SX), !.flags = <<FUZZY>>],
         [base EXCEPT !.msgid = SB, !.msgstr = Some(SX), !.obsolete = TRUE] }

InitMO ==
    /\ file = NewPOFile(<<>>, TextMetadata, 78)
    /\ arg = <<>>
    /\ pre = <<>>
    /\ op = "new"
    /\ ret = <<>>

\* file.append(entry)
DoAppendMO ==
    /\ Len(file.entries) < MaxEntries
    /\ \E e \in MOCatalogEntries : file' = [file EXCEPT !.entries = Append(@, e)]
    /\ op' = "append"
    /\ arg' = <<>>
    /\ ret' = <<>>
    /\ UNCHANGED pre

\* MOFile::from(&file)
DoMOFileFrom ==
    /\ ret' = MOFile_from_POFile(file)
    /\ op' = "mofile_from"
    /\ arg' = <<>>
    /\ UNCHANGED <<file, pre>>

\* file.as_bytes(), and the bytes read back as an MOFile
DoMOFileReread ==
    /\ \E keys \in Perms(DOMAIN file.metadata) :
          /\ arg' = keys
          /\ \E tables \in {MOFile_string_tables(MOFile_from_POFile(file), keys)} :
                ret' = MOFile_from_string_tables(tables)
    /\ op' = "mofile_reread"
    /\ UNCHANGED <<file, pre>>

\* mofile(file.as_bytes_le()) or mofile(file.as_bytes_be())
DoMOFileBytes ==
    /\ \E keys \in Perms(DOMAIN file.metadata), le \in BOOLEAN :
          /\ arg' = <<keys, le>>
          /\ \E bytes \in {IF le THEN POFile_as_bytes_le(file, keys)
                                  ELSE POFile_as_bytes_be(file, keys)} :
                ret' = MOFileParser_parse(bytes)
    /\ op' = "mofile_bytes"
    /\ UNCHANGED <<file, pre>>

NextMO == DoAppendMO \/ DoMOFileFrom \/ DoMOFileReread \/ DoMOFileBytes

SpecMO == InitMO /\ [][NextMO]_vars

PluralOf(m) == IF IsSome(m.msgstr_plural) THEN Unwrap(m.msgstr_plural) ELSE EmptyMap

SameContent(m, e) ==
    /\ m.msgid = e.msgid
    /\ m.msgstr = e.msgstr
    /\ m.msgid_plural = e.msgid_plural
    /\ PluralOf(m) = e.msgstr_plural
    /\ m.msgctxt = e.msgctxt

\* the values of a plural map in ascending order of their indices
ValuesAscending(p) ==
    LET indexes == IndicesAscending(DOMAIN p)
    IN [i \in 1..Len(indexes) |-> p[indexes[i]]]

\* the content of e but for the plural indices: the plural values in their
\* order, a single one under msgstr or under an index
SameContentButIndices(m, e) ==
    /\ m.msgid = e.msgid
    /\ m.msgid_plural = e.msgid_plural
    /\ m.msgctxt = e.msgctxt
    /\ IF DOMAIN e.msgstr_plural = {} THEN m.msgstr = e.msgstr /\ PluralOf(m) = EmptyMap
       ELSE ValuesAscending(e.msgstr_plural) =
                IF IsSome(m.msgstr_plural) THEN ValuesAscending(PluralOf(m))
                ELSE <<Unwrap(m.msgstr)>>

\* the entries of the MOFile in ret and the translated entries of file
\* correspond one to one, in content (exact) or in content but for the indices
OneToOne(exact) ==
    LET t == POFile_translated_entries(file.entries)
    IN /\ Len(ret.entries) = Len(t)
       /\ \E p \in Perms(1..Len(t)) :
             \A i \in 1..Len(t) :
                 IF exact THEN SameContent(ret.entries[p[i]], t[i])
                 ELSE SameContentButIndices(ret.entries[p[i]], t[i])

\* as many entries as file has entries that are translated and neither fuzzy
\* nor obsolete
NoneUntranslated ==
    Len(ret.entries) =
        Cardinality({i \in 1..Len(file.entries) :
            /\ ~file.entries[i].obsolete
            /\ ~POEntry_fuzzy(file.entries[i])
            /\ POEntry_translated(file.entries[i])})

IDX4 == <<"4">>

MsgstrInputs == {None, Some(<<>>), Some(SX)}

PluralInputs ==
    {EmptyMap, (IDX0 :> <<>>), (IDX0 :> SX) @@ (IDX1 :> <<>>), (IDX0 :> SX),
     (IDX4 :> SX), (IDX0 :> SX) @@ (IDX1 :> SY)}

POEntryInputs ==
    {[NewPOEntry(0) EXCEPT !.msgid = SA, !.msgstr = m, !.msgstr_plural = p,
                           !.obsolete = o, !.flags = f] :
        m \in MsgstrInputs, p \in PluralInputs, o \in BOOLEAN,
        f \in {<<>>, <<FUZZY>>, <<SA, FUZZY>>}}

MOEntryInputs ==
    {[msgid |-> SA, msgstr |-> m, msgid_plural |-> None, msgstr_plural |-> p,
      msgctxt |-> None] :
        m \in MsgstrInputs, p \in {None} \cup {Some(q) : q \in PluralInputs}}

InitTranslated ==
    /\ file = NewPOFile(<<>>, EmptyMap, 78)
    /\ pre = <<>>
    /\ ret = <<>>
    /\ \/ op = "poentry" /\ arg \in POEntryInputs
       \/ op = "moentry" /\ arg \in MOEntryInputs

\* entry.translated() on a POEntry
DoPOEntryTranslated ==
    /\ op = "poentry"
    /\ ret' = POEntry_translated(arg)
    /\ op' = "poentry_translated"
    /\ UNCHANGED <<file, arg, pre>>

\* entry.translated() on a MOEntry
DoMOEntryTranslated ==
    /\ op = "moentry"
    /\ ret' = MOEntry_translated(arg)
    /\ op' = "moentry_translated"
    /\ UNCHANGED <<file, arg, pre>>

NextTranslated == DoPOEntryTranslated \/ DoMOEntryTranslated

SpecTranslated == InitTranslated /\ [][NextTranslated]_vars

NonEmptyMsgstr(e) == IsSome(e.msgstr) /\ Unwrap(e.msgstr) # <<>>

CompletePlural(p) == DOMAIN p # {} /\ \A k \in DOMAIN p : p[k] # <<>>

HasFuzzyFlag(e) == FUZZY \in {e.flags[i] : i \in 1..Len(e.flags)}

\* C2 as stated: POEntry::translated() is true exactly when the entry is not
\* obsolete, not fuzzy, and msgstr is non-empty or msgstr_plural is non-empty
\* with every value non-empty.
C2_TranslatedAsStated ==
    op = "poentry_translated" =>
        ret = (/\ ~arg.obsolete
               /\ ~HasFuzzyFlag(arg)
               /\ NonEmptyMsgstr(arg) \/ CompletePlural(arg.msgstr_plural))

\* C2 amended: POEntry::translated() is true exactly when the entry is not
\* obsolete, not fuzzy, and either msgstr is present and non-empty, or msgstr
\* is absent and msgstr_plural is non-empty with every value non-empty.
C2_TranslatedAmended ==
    op = "poentry_translated" =>
        ret = (/\ ~arg.obsolete
               /\ ~HasFuzzyFlag(arg)
               /\ \/ NonEmptyMsgstr(arg)
                  \/ ~IsSome(arg.msgstr) /\ CompletePlural(arg.msgstr_plural))

\* translated() answered for a live entry with msgstr Some("") and a complete
\* plural map, and for a live entry translated by its plural map alone
C2_Witness ==
    /\ op = "poentry_translated"
    /\ ~arg.obsolete
    /\ ~HasFuzzyFlag(arg)
    /\ CompletePlural(arg.msgstr_plural)
    /\ arg.msgstr = Some(<<>>)
    /\ ret = FALSE

\* C3 as stated: MOEntry::translated() is true exactly when msgstr is present
\* and non-empty, or msgstr_plural is present, non-empty and has every value
\* non-empty.
C3_TranslatedAsStated ==
    op = "moentry_translated" =>
        ret = (\/ NonEmptyMsgstr(arg)
               \/ IsSome(arg.msgstr_plural) /\ CompletePlural(Unwrap(arg.msgstr_plural)))

\* C3 amended: MOEntry::translated() is true exactly when msgstr is present and
\* non-empty, or msgstr is absent and msgstr_plural is present, non-empty and
\* has every value non-empty; the plural indices play no part.
C3_TranslatedAmended ==
    op = "moentry_translated" =>
        ret = (\/ NonEmptyMsgstr(arg)
               \/ /\ ~IsSome(arg.msgstr)
                  /\ IsSome(arg.msgstr_plural)
                  /\ CompletePlural(Unwrap(arg.msgstr_plural)))

\* translated() answered false for msgstr Some("") with a complete plural map
C3_Witness ==
    /\ op = "moentry_translated"
    /\ arg.msgstr = Some(<<>>)
    /\ IsSome(arg.msgstr_plural)
    /\ CompletePlural(Unwrap(arg.msgstr_plural))
    /\ ret = FALSE

(***************************************************************************)
(* The metadata map and its output order                                   *)
(***************************************************************************)
MaxMetadata == 3

\* two canonical keys, keys that differ in a digit run, with and without a
\* leading zero, two keys that differ in whitespace only, and a key in lower case
MetadataKeys ==
    { Chars("Language"), Chars("Project-Id-Version"),
      Chars("X-2"), Chars("X-10"), Chars("X-08"), Chars("X-7"), Chars("X- 7"),
      Chars("a") }

InitMetadata ==
    /\ file = NewPOFile(<<>>, EmptyMap, 78)
    /\ arg = <<>>
    /\ pre = <<>>
    /\ op = "new"
    /\ ret = <<>>

\* file.metadata.insert(key, value), for a key not yet in the map
DoInsertMetadata ==
    /\ Cardinality(DOMAIN file.metadata) < MaxMetadata
    /\ \E key \in MetadataKeys \ DOMAIN file.metadata :
          file' = [file EXCEPT !.metadata = (key :> <<"v">>) @@ file.metadata]
    /\ op' = "insert"
    /\ arg' = <<>>
    /\ ret' = <<>>
    /\ UNCHANGED pre

\* metadata_hashmap_to_ordered(&file.metadata)
DoMetadataOrdered ==
    /\ \E keys \in Perms(DOMAIN file.metadata) :
          /\ arg' = keys
          /\ ret' = metadata_hashmap_to_ordered(file.metadata, keys)
    /\ op' = "ordered"
    /\ UNCHANGED <<file, pre>>

NextMetadata == DoInsertMetadata \/ DoMetadataOrdered

SpecMetadata == InitMetadata /\ [][NextMetadata]_vars

\* a key cut into its digit runs and its other characters, whitespace left out
RECURSIVE KeyTokens(_, _)
KeyTokens(s, run) ==
    LET flush == IF run = <<>> THEN <<>> ELSE <<run>>
    IN IF s = <<>> THEN flush
       ELSE IF IsDigit(Head(s)) THEN KeyTokens(Tail(s), Append(run, Head(s)))
       ELSE IF IsWhitespace(Head(s)) THEN flush \o KeyTokens(Tail(s), <<>>)
       ELSE flush \o <<<<Head(s)>>>> \o KeyTokens(Tail(s), <<>>)

IsRun(token) == IsDigit(token[1])

Sign(n) == IF n < 0 THEN -1 ELSE IF n > 0 THEN 1 ELSE 0

\* two tokens, digit runs by their value
TokenCmpNumeric(s, t) ==
    IF IsRun(s) /\ IsRun(t) THEN Sign(DecimalValue(s) - DecimalValue(t))
    ELSE CharCmp(s[1], t[1])

\* two tokens, digit runs by their value unless one starts with 0, and then
\* digit by digit from the left
TokenCmpLeadingZero(s, t) ==
    IF IsRun(s) /\ IsRun(t) /\ (s[1] = "0" \/ t[1] = "0") THEN StrCmp(s, t)
    ELSE TokenCmpNumeric(s, t)

RECURSIVE TokensCmp(_, _, _)
TokensCmp(ss, ts, leading_zero) ==
    IF ss = <<>> /\ ts = <<>> THEN 0
    ELSE IF ss = <<>> THEN -1
    ELSE IF ts = <<>> THEN 1
    ELSE LET c == IF leading_zero THEN TokenCmpLeadingZero(Head(ss), Head(ts))
                  ELSE TokenCmpNumeric(Head(ss), Head(ts))
         IN IF c # 0 THEN c ELSE TokensCmp(Tail(ss), Tail(ts), leading_zero)

NaturalCmp(a, b, leading_zero) ==
    TokensCmp(KeyTokens(a, <<>>), KeyTokens(b, <<>>), leading_zero)

CanonicalIndex(key) ==
    CHOOSE i \in 1..Len(METADATA_KEYS_ORDER) : METADATA_KEYS_ORDER[i] = key

\* every key of the map is in ret exactly once, with its value
EveryKeyOnce ==
    /\ Len(ret) = Cardinality(DOMAIN file.metadata)
    /\ \A key \in DOMAIN file.metadata :
          \E i \in 1..Len(ret) : ret[i] = <<key, file.metadata[key]>>

\* the canonical keys come first, in the order of METADATA_KEYS_ORDER
CanonicalFirst ==
    \A i, j \in 1..Len(ret) :
        i < j /\ IsCanonicalKey(ret[j][1]) =>
            /\ IsCanonicalKey(ret[i][1])
            /\ CanonicalIndex(ret[i][1]) < CanonicalIndex(ret[j][1])

\* the other keys never descend in the natural order
OthersAscend(leading_zero) ==
    \A i, j \in 1..Len(ret) :
        i < j /\ ~IsCanonicalKey(ret[i][1]) /\ ~IsCanonicalKey(ret[j][1]) =>
            NaturalCmp(ret[i][1], ret[j][1], leading_zero) <= 0

\* C7 as stated: in the ordered metadata every key of the map appears exactly
\* once, the keys of METADATA_KEYS_ORDER come first in that canonical order,
\* and the remaining keys follow in natural sort order, their digit runs
\* compared numerically.
C7_MetadataOrderAsStated ==
    op = "ordered" => EveryKeyOnce /\ CanonicalFirst /\ OthersAscend(FALSE)

\* C7 amended: in the ordered metadata every key of the map appears exactly
\* once, the keys of METADATA_KEYS_ORDER come first in that canonical order,
\* and the remaining keys follow in the natural order that skips whitespace
\* and compares two digit runs numerically when neither starts with 0, and
\* digit by digit from the left when one of them does.
C7_MetadataOrderAmended ==
    op = "ordered" => EveryKeyOnce /\ CanonicalFirst /\ OthersAscend(TRUE)

\* a map that iterates X-10 before X-2 and before a canonical key was ordered
C7_Witness ==
    /\ op = "ordered"
    /\ arg = <<Chars("X-10"), Chars("X-2"), Chars("Language")>>
    /\ ret[1][1] = Chars("Language")
    /\ ret[2][1] = Chars("X-2")

(***************************************************************************)
(* The catalog written as PO text                                          *)
(***************************************************************************)
\* the widths a catalog is opened with: a narrow one and the default
WrapWidths == {12, 78}

\* an entry whose msgid fits in 78 columns and not in 12 and whose msgstr ends
\* in a space; the same entry without that space; a plural entry with the
\* indices 2 and 10; an obsolete entry with a previous msgid; an entry with
\* every comment section and a CJK msgid; an entry with escapes in its msgid
TextEntries ==
    LET base == NewPOEntry(0)
    IN { [base EXCEPT !.msgid = Chars("aaa bbb ccc ddd"), !.msgstr = Some(Chars("b "))],
         [base EXCEPT !.msgid = Chars("aaa bbb ccc ddd"), !.msgstr = Some(Chars("b"))],
         [base EXCEPT !.msgid = SA, !.msgid_plural = Some(SB),
                      !.msgstr_plural = (Chars("2") :> SX) @@ (Chars("10") :> SY)],
         [base EXCEPT !.msgid = SC, !.msgstr = Some(SX), !.obsolete = TRUE,
                      !.previous_msgid = Some(SB)],
         [base EXCEPT !.msgid = <<CJK, CJK, " ", EACUTE>>, !.msgstr = Some(SY),
                      !.msgctxt = Some(SC),
                      !.comment = Some(Chars("c1\nc2")), !.tcomment = Some(Chars("t")),
                      !.occurrences = <<<<Chars("f.rs"), Chars("1")>>, <<Chars("g.rs"), <<>>>>>>,
                      !.flags = <<FUZZY, Chars("c-format")>>,
                      !.previous_msgctxt = Some(SA),
                      !.previous_msgid_plural = Some(SB)],
         [base EXCEPT !.msgid = Chars("q\"\\\n"), !.msgstr = Some(Chars("\tz"))] }

InitText ==
    /\ \E w \in WrapWidths, fuzzy \in BOOLEAN, metadata \in {TextMetadata, SpacedMetadata} :
          file = [NewPOFile(<<>>, metadata, w) EXCEPT
                     !.header = Some(Chars("h")), !.metadata_is_fuzzy = fuzzy]
    /\ arg = <<>>
    /\ pre = <<>>
    /\ op = "new"
    /\ ret = <<>>

\* file.append(entry)
DoAppendText ==
    /\ Len(file.entries) < MaxEntries
    /\ \E e \in TextEntries : file' = [file EXCEPT !.entries = Append(@, e)]
    /\ op' = "append"
    /\ arg' = <<>>
    /\ ret' = <<>>
    /\ UNCHANGED pre

\* file.to_string()
DoPOFileToString ==
    /\ \E keys \in Perms(DOMAIN file.metadata) :
          /\ arg' = keys
          /\ ret' = POFile_to_string(file, keys)
    /\ op' = "to_string"
    /\ UNCHANGED <<file, pre>>

\* file.entries[i].to_string_with_wrapwidth(w)
DoEntryToString ==
    /\ \E i \in 1..Len(file.entries), w \in WrapWidths :
          /\ arg' = <<i, w>>
          /\ ret' = POEntry_to_string_with_wrapwidth(file.entries[i], w)
    /\ op' = "entry_to_string"
    /\ UNCHANGED <<file, pre>>

NextText == DoAppendText \/ DoPOFileToString \/ DoEntryToString

SpecText == InitText /\ [][NextText]_vars

\* the catalogs with as many entries as f, the other fields as in f or with
\* the other metadata_is_fuzzy
CatalogsLike(f) ==
    {[f EXCEPT !.entries = es, !.metadata_is_fuzzy = fuzzy] :
        es \in [1..Len(f.entries) -> TextEntries], fuzzy \in BOOLEAN}

\* C1: PO round trip: parsing the PO text serialized from a catalog C yields a
\* catalog equal to C (same header, metadata, metadata_is_fuzzy and entries).
\* The parsed catalog is a function of the text, so the text written for C is
\* the text of no catalog that differs from C.
C1_RoundTrip ==
    op = "to_string" =>
        \A c \in CatalogsLike(file) : POFile_to_string(c, arg) = ret => c = file

IsInfix(sub, s) ==
    \E k \in 0..(Len(s) - Len(sub)) : SubSeq(s, k + 1, k + Len(sub)) = sub

\* the line without its "#~ " prefix
Live(line) == IF StartsWith(line, Chars("#~ ")) THEN SubSeq(line, 4, Len(line)) ELSE line

RECURSIVE DigitsPrefix(_)
DigitsPrefix(s) ==
    IF s # <<>> /\ IsDigit(Head(s)) THEN <<Head(s)>> \o DigitsPrefix(Tail(s)) ELSE <<>>

\* the values of i on the msgstr[i] lines of a text, in the order of the lines
RECURSIVE PluralIndices(_)
PluralIndices(lines) ==
    IF lines = <<>> THEN <<>>
    ELSE (IF StartsWith(Live(Head(lines)), Chars("msgstr["))
          THEN <<DecimalValue(DigitsPrefix(SubSeq(Live(Head(lines)), 8, Len(Head(lines)))))>>
          ELSE <<>>)
         \o PluralIndices(Tail(lines))

\* C6: when an entry with a non-empty msgstr_plural is serialized, its
\* msgstr[i] lines appear in ascending integer order of i, for every set of
\* decimal indices, sets mixing one-digit and multi-digit indices included.
C6_PluralLinesAscend ==
    op = "entry_to_string" =>
        LET indices == PluralIndices(Lines(ret))
        IN \A i, j \in 1..Len(indices) : i < j => indices[i] < indices[j]

\* C8: every line of the PO text of a POFile has width at most
\* options.wrapwidth + 2.
C8_LinesWithinWrapwidth ==
    op = "to_string" =>
        \A i \in 1..Len(Lines(ret)) : StrWidth(Lines(ret)[i]) <= file.wrapwidth + 2

\* C9: the PO text of a POFile whose options.wrapwidth is w is built from each
\* entry's to_string_with_wrapwidth(w).
C9_EntriesWrappedAtOptionsWidth ==
    op = "to_string" =>
        \A i \in 1..Len(file.entries) :
            IsInfix(POEntry_to_string_with_wrapwidth(file.entries[i], file.wrapwidth),
                    ret \o <<"\n">>)

\* C11: serialization is deterministic: the PO text of a catalog is the same
\* for every order in which its metadata map iterates.
C11_TextIndependentOfIteration ==
    op = "to_string" =>
        \A keys \in Perms(DOMAIN file.metadata) : POFile_to_string(file, keys) = ret

(***************************************************************************)
(* The PO parser and pofile()                                              *)
(***************************************************************************)
Err(e) == [tag |-> "Err", value |-> e]

SyntaxError(kind, line, index, message) ==
    [kind |-> kind, line |-> line, index |-> index, message |-> message]

\* the place in a payload's content of the first double quote that no
\* backslash escapes, 0 if there is none
RECURSIVE UnescapedQuoteFrom(_, _)
UnescapedQuoteFrom(content, i) ==
    IF i > Len(content) THEN 0
    ELSE IF content[i] = BACKSLASH THEN UnescapedQuoteFrom(content, i + 2)
    ELSE IF content[i] = DQUOTE THEN i
    ELSE UnescapedQuoteFrom(content, i + 1)

\* the quoted payload that starts at column col of line linenum, unescaped
QuotedPayload(payload, linenum, col) ==
    IF Len(payload) < 2 \/ payload[1] # DQUOTE \/ payload[Len(payload)] # DQUOTE
    THEN Err(SyntaxError("Custom", linenum, col, Chars("missing closing quote")))
    ELSE LET content == SubSeq(payload, 2, Len(payload) - 1)
             quote == UnescapedQuoteFrom(content, 1)
             text == Unescape(content)
         IN IF quote # 0
            THEN Err(SyntaxError("UnescapedDoubleQuoteFound", linenum, col + quote + 1, <<>>))
            ELSE IF text.tag # "Ok"
            THEN Err(SyntaxError("Custom", linenum, col, Chars(text.tag)))
            ELSE text

\* POFileParser::new
POFileParser_new(wrapwidth) ==
    [file |-> [header |-> None, metadata |-> EmptyMap, metadata_is_fuzzy |-> FALSE,
               entries |-> <<>>, wrapwidth |-> wrapwidth],
     current |-> NewPOEntry(0), started |-> FALSE, field |-> <<>>,
     metadata_seen |-> FALSE, error |-> None]

\* the keywords with a quoted payload, and the field each one opens
Keywords ==
    << <<Chars("msgid_plural "), "msgid_plural">>, <<Chars("msgid "), "msgid">>,
       <<Chars("msgstr "), "msgstr">>, <<Chars("msgctxt "), "msgctxt">> >>

KeywordOf(line) == FirstTrue([k \in 1..Len(Keywords) |-> StartsWith(line, Keywords[k][1])])

\* the entry with text put into a field, after what the field holds if appending
PutField(e, field, text, appending) ==
    LET old(o) == IF appending /\ IsSome(o) THEN Unwrap(o) ELSE <<>>
    IN IF field = <<"msgid">> THEN [e EXCEPT !.msgid = (IF appending THEN @ ELSE <<>>) \o text]
       ELSE IF field = <<"msgstr">> THEN [e EXCEPT !.msgstr = Some(old(@) \o text)]
       ELSE IF field = <<"msgctxt">> THEN [e EXCEPT !.msgctxt = Some(old(@) \o text)]
       ELSE IF field = <<"msgid_plural">> THEN [e EXCEPT !.msgid_plural = Some(old(@) \o text)]
       ELSE IF field = <<"previous_msgid">> THEN [e EXCEPT !.previous_msgid = Some(old(@) \o text)]
       ELSE IF field = <<"previous_msgctxt">> THEN [e EXCEPT !.previous_msgctxt = Some(old(@) \o text)]
       ELSE IF field = <<"previous_msgid_plural">>
       THEN [e EXCEPT !.previous_msgid_plural = Some(old(@) \o text)]
       ELSE [e EXCEPT !.msgstr_plural =
                (field[2] :> ((IF appending /\ field[2] \in DOMAIN @ THEN @[field[2]] ELSE <<>>)
                              \o text)) @@ @]

\* the entry being built, opened at this line if no line has opened it
Building(p, linenum) == IF p.started THEN p.current ELSE NewPOEntry(linenum)

Failed(p, kind, linenum, index, message) ==
    [p EXCEPT !.error = Some(SyntaxError(kind, linenum, index, message))]

\* a payload put into a field of the entry being built
WithPayload(p, payload, field, appending, linenum, obsolete) ==
    IF payload.tag # "Ok" THEN [p EXCEPT !.error = Some(payload.value)]
    ELSE LET e == PutField(Building(p, linenum), field, payload.value, appending)
         IN [p EXCEPT !.current = [e EXCEPT !.obsolete = @ \/ obsolete],
                      !.started = TRUE, !.field = field]

\* a line, or the remainder of a "#~ " or "#| " line, that is not a comment:
\* a keyword line, a msgstr[N] line or a continuation string
ParseLive(p, line, linenum, col, obsolete, previous) ==
    LET k == KeywordOf(line)
        name == IF previous THEN "previous_" \o Keywords[k][2] ELSE Keywords[k][2]
        digits == DigitsPrefix(SubSeq(line, 8, Len(line)))
        after == SubSeq(line, 8 + Len(digits), Len(line))
    IN IF k # 0 /\ ~(previous /\ Keywords[k][2] = "msgstr")
       THEN WithPayload(p, QuotedPayload(SubSeq(line, Len(Keywords[k][1]) + 1, Len(line)),
                                         linenum, col + Len(Keywords[k][1])),
                        <<name>>, FALSE, linenum, obsolete)
       ELSE IF previous
       THEN Failed(p, "Custom", linenum, 0,
                   Chars("unknown keyword ") \o SplitOn(line, " ", <<>>)[1])
       ELSE IF StartsWith(line, Chars("msgstr[")) /\ digits # <<>> /\ StartsWith(after, Chars("] "))
       THEN WithPayload(p, QuotedPayload(SubSeq(after, 3, Len(after)), linenum,
                                         col + 9 + Len(digits)),
                        <<"msgstr_plural", digits>>, FALSE, linenum, obsolete)
       ELSE IF line # <<>> /\ line[1] = DQUOTE /\ p.field # <<>>
       THEN WithPayload(p, QuotedPayload(line, linenum, col), p.field, TRUE, linenum, obsolete)
       ELSE Failed(p, "Generic", linenum, col, <<>>)

TrimSpaces(s) == TrimEnd(SkipWhitespace(s))

NonEmptyString(s) == s # <<>>

\* a token path[:line] of a "#:" line
Occurrence(token) ==
    LET parts == SplitOn(token, ":", <<>>)
    IN IF Len(parts) = 1 THEN <<token, <<>>>>
       ELSE <<SubSeq(token, 1, Len(token) - Len(parts[Len(parts)]) - 1), parts[Len(parts)]>>

\* a comment line: translator comment, extracted comment, occurrences, flags
ParseComment(p, line, linenum) ==
    LET e == Building(p, linenum)
        rest == TrimSpaces(SubSeq(line, 3, Len(line)))
        more(o) == IF IsSome(o) THEN Some(Unwrap(o) \o <<"\n">> \o rest) ELSE Some(rest)
        tokens(sep) == SelectSeq(SplitOn(rest, sep, <<>>), NonEmptyString)
        built(entry) == [p EXCEPT !.current = entry, !.started = TRUE, !.field = <<>>]
    IN IF line = <<"#">> \/ StartsWith(line, Chars("# "))
       THEN built([e EXCEPT !.comment = more(@)])
       ELSE IF StartsWith(line, Chars("#."))
       THEN built([e EXCEPT !.tcomment = more(@)])
       ELSE IF StartsWith(line, Chars("#:"))
       THEN built([e EXCEPT !.occurrences =
                      @ \o [i \in 1..Len(tokens(" ")) |-> Occurrence(tokens(" ")[i])]])
       ELSE IF StartsWith(line, Chars("#,"))
       THEN built([e EXCEPT !.flags =
                      @ \o [i \in 1..Len(tokens(",")) |-> TrimSpaces(tokens(",")[i])]])
       ELSE Failed(p, "Custom", linenum, 0,
                   Chars("unknown keyword ") \o SplitOn(line, " ", <<>>)[1])

\* a blank line or the end of the input: the entry being built, if any line
\* opened it, becomes the metadata (the first entry, with an empty msgid and
\* no context) or is pushed onto the entries
Finalize(p) ==
    LET e == p.current
        fresh == [p EXCEPT !.current = NewPOEntry(0), !.started = FALSE, !.field = <<>>]
    IN IF ~p.started THEN fresh
       ELSE IF ~p.metadata_seen /\ p.file.entries = <<>> /\ e.msgid = <<>> /\ ~IsSome(e.msgctxt)
       THEN [fresh EXCEPT !.metadata_seen = TRUE,
                          !.file.header = e.comment,
                          !.file.metadata_is_fuzzy = POEntry_fuzzy(e),
                          !.file.metadata = IF IsSome(e.msgstr)
                                            THEN MetadataFromMsgstr(Unwrap(e.msgstr))
                                            ELSE EmptyMap]
       ELSE [fresh EXCEPT !.file.entries = Append(@, e)]

\* one physical line
ParseLine(p, line, linenum) ==
    IF line = <<>> THEN Finalize(p)
    ELSE IF StartsWith(line, Chars("#~ "))
    THEN ParseLive(p, SubSeq(line, 4, Len(line)), linenum, 3, TRUE, FALSE)
    ELSE IF StartsWith(line, Chars("#| "))
    THEN ParseLive(p, SubSeq(line, 4, Len(line)), linenum, 3, FALSE, TRUE)
    ELSE IF line[1] = "#" THEN ParseComment(p, line, linenum)
    ELSE ParseLive(p, line, linenum, 0, FALSE, FALSE)

\* POFileParser::parse: the lines in order up to the first error
RECURSIVE POFileParser_parse(_, _, _)
POFileParser_parse(p, lines, linenum) ==
    IF IsSome(p.error) THEN p
    ELSE IF lines = <<>> THEN Finalize(p)
    ELSE POFileParser_parse(ParseLine(p, Head(lines), linenum), Tail(lines), linenum + 1)

\* pofile() that hands back whatever the parser has built
pofile_lenient(lines, wrapwidth) ==
    Ok(POFileParser_parse(POFileParser_new(wrapwidth), lines, 1).file)

\* pofile(): parser.parse()?; Ok(parser.file)
pofile(lines, wrapwidth) ==
    LET parser == POFileParser_parse(POFileParser_new(wrapwidth), lines, 1)
    IN IF IsSome(parser.error) THEN Err(Unwrap(parser.error)) ELSE Ok(parser.file)

MaxLines == 3

\* the lines of the inputs: keyword lines, a continuation, a blank line, a
\* previous-msgid line, a line with an unescaped double quote, a line with an
\* unknown escape, a line with an unknown keyword
POLines ==
    { Chars("msgid \"a\""), Chars("msgstr \"b\""), Chars("\"c\""), <<>>,
      Chars("#| msgid \"d\""), Chars("msgstr \"Ho\"la\""), Chars("msgid \"\\q\""),
      Chars("#| previous_message = \"x\"") }

InitParse ==
    /\ file = <<>>
    /\ arg \in SeqsUpTo(POLines, MaxLines)
    /\ pre = <<>>
    /\ op = "new"
    /\ ret = <<>>

\* pofile(content), the content given by its lines
DoPofile ==
    /\ op = "new"
    /\ ret' = pofile(arg, 78)
    /\ op' = "pofile"
    /\ UNCHANGED <<file, arg, pre>>

NextParse == DoPofile

SpecParse == InitParse /\ [][NextParse]_vars

\* the lines of POLines that no state of the parser accepts
BadLines ==
    { Chars("msgstr \"Ho\"la\""), Chars("msgid \"\\q\""), Chars("#| previous_message = \"x\"") }

\* line k is a syntax error: a bad line, or a continuation string with no field
\* open before it
Faulty(lines, k) ==
    \/ lines[k] \in BadLines
    \/ /\ lines[k] # <<>> /\ lines[k][1] = DQUOTE
       /\ (k = 1 \/ lines[k - 1] = <<>>)

FirstFault(lines) ==
    IF \E k \in 1..Len(lines) : Faulty(lines, k)
    THEN CHOOSE k \in 1..Len(lines) :
             Faulty(lines, k) /\ \A j \in 1..(k - 1) : ~Faulty(lines, j)
    ELSE 0

\* C12: pofile(options) stops at the first syntax error and returns only that
\* error: a POFile is returned only when the whole input parsed, and on error
\* the caller gets the error of the first faulty line and no catalog.
C12_FirstErrorOnly ==
    op = "pofile" =>
        IF FirstFault(arg) = 0
        THEN ret.tag = "Ok" /\ DOMAIN ret.value = DOMAIN NewPOFile(<<>>, EmptyMap, 78)
        ELSE /\ ret.tag = "Err"
             /\ DOMAIN ret.value = {"kind", "line", "index", "message"}
             /\ ret.value.line = FirstFault(arg)

\* an entry is parsed and pushed, then the third line is a syntax error
C12_Witness ==
    /\ op = "pofile"
    /\ arg = <<Chars("msgid \"a\""), <<>>, Chars("msgstr \"Ho\"la\"")>>
    /\ ret.tag = "Err"
    /\ ret.value.kind = "UnescapedDoubleQuoteFound"

(***************************************************************************)
(* mofile() on byte contents                                               *)
(***************************************************************************)
\* magic numbers: the right one and two wrong ones
MagicWords == {MAGIC, Word(800), Word(0)}

\* revision words: 0, 1, 234 (major 0), 65536 (major 1), 65541 (major 1,
\* minor 5), 131072 (major 2)
RevisionWords == {Word(0), Word(1), Word(234), U32(1, 0), U32(1, 5), U32(2, 0)}

\* the header of an MO file without strings, in either byte order, cut after
\* any number of bytes
MOContents ==
    {SubSeq(create_binary_content(
                <<magic, revision, Word(0), Word(28), Word(28), Word(0), Word(0)>>, le),
            1, k) :
        magic \in MagicWords, revision \in RevisionWords, le \in BOOLEAN, k \in 0..28}

InitMOBytes ==
    /\ file = <<>>
    /\ arg \in MOContents
    /\ pre = <<>>
    /\ op = "new"
    /\ ret = <<>>

\* mofile(content)
DoMofile ==
    /\ op = "new"
    /\ ret' = MOFileParser_parse(arg)
    /\ op' = "mofile"
    /\ UNCHANGED <<file, arg, pre>>

NextMOBytes == DoMofile

SpecMOBytes == InitMOBytes /\ [][NextMOBytes]_vars

\* the first four bytes read as an integer from its low byte up (descending =
\* FALSE) or from its high byte down (descending = TRUE), as a number
Reading(bytes, descending) ==
    LET b(i) == IF descending THEN bytes[5 - i] ELSE bytes[i]
    IN b(1) + 256 * b(2) + 65536 * b(3) + 16777216 * b(4)

\* the first four bytes are DE 12 04 95 or 95 04 12 DE
ValidMagic(bytes) ==
    Len(bytes) >= 4 /\ SubSeq(bytes, 1, 4) \in {<<222, 18, 4, 149>>, <<149, 4, 18, 222>>}

\* the revision word of a content with a valid magic number and 8 bytes
RevisionOf(bytes) ==
    IF SubSeq(bytes, 1, 4) = <<222, 18, 4, 149>>
    THEN U32(bytes[8] * 256 + bytes[7], bytes[6] * 256 + bytes[5])
    ELSE U32(bytes[5] * 256 + bytes[6], bytes[7] * 256 + bytes[8])

ErrKind(r) == IF r.tag = "Err" THEN r.value.kind ELSE "none"

Value(word) == word[1] * 65536 + word[2]

\* C13: the MO reader validates in a fixed order: fewer than 4 bytes give
\* ErrorReadingMagicNumber; otherwise four bytes that are the magic number
\* under neither reading give IncorrectMagicNumber with both readings; only
\* then is the revision checked, and only after a valid revision is a missing
\* string count reported as CorruptedMOData.
C13_ValidationOrder ==
    op = "mofile" =>
        /\ Len(arg) < 4 => ErrKind(ret) = "ErrorReadingMagicNumber"
        /\ (Len(arg) >= 4 /\ ~ValidMagic(arg)) =>
              /\ ErrKind(ret) = "IncorrectMagicNumber"
              /\ Value(ret.value.magic_number_le) = Reading(arg, FALSE)
              /\ Value(ret.value.magic_number_be) = Reading(arg, TRUE)
        /\ ErrKind(ret) = "UnsupportedMORevisionNumber" => ValidMagic(arg) /\ Len(arg) >= 8
        /\ (ValidMagic(arg) /\ Len(arg) >= 8 /\ RevisionOf(arg)[1] \notin {0, 1}) =>
              ErrKind(ret) = "UnsupportedMORevisionNumber"
        /\ (ErrKind(ret) = "CorruptedMOData" /\ ret.value.context = "parsing number of strings") =>
              /\ ValidMagic(arg)
              /\ Len(arg) \in 8..11
              /\ RevisionOf(arg)[1] \in {0, 1}

\* the bytes of 800 in little-endian order: both readings are reported
C13_Witness ==
    /\ op = "mofile"
    /\ arg = <<32, 3, 0, 0>>
    /\ ErrKind(ret) = "IncorrectMagicNumber"
    /\ Value(ret.value.magic_number_le) = 800
    /\ Value(ret.value.magic_number_be) = 537067520

C15_EndiannessIndependence ==
    op = "mofile_bytes" =>
        /\ ret.tag = "Ok"
        /\ \A bytes \in {IF arg[2] THEN POFile_as_bytes_be(file, arg[1])
                                     ELSE POFile_as_bytes_le(file, arg[1])} :
              ret = MOFileParser_parse(bytes)

\* the big-endian bytes of a catalog with a plural entry and an entry with a
\* context, read back
C15_Witness ==
    /\ op = "mofile_bytes"
    /\ arg[2] = FALSE
    /\ ret.tag = "Ok"
    /\ Len(ret.value.entries) = 2
    /\ \E i \in 1..2 : IsSome(ret.value.entries[i].msgctxt)
    /\ \E i \in 1..2 : IsSome(ret.value.entries[i].msgstr_plural)
    /\ DOMAIN ret.value.metadata = DOMAIN file.metadata

(***************************************************************************)
(* One string field written as PO lines                                    *)
(***************************************************************************)
\* values with each of the characters that are escaped, a value with spaces,
\* a value whose only break opportunity is inside an escaped backslash, a
\* value of wide characters
FieldValues ==
    { <<>>, Chars("aa\"bb"), Chars("aa\nbb"), Chars("aa\tbb"), Chars("aa\rbb"),
      Chars("aa\\bb"), Chars("aaa bbb ccc ddd"), Chars("aaaaaa\\bbbbbbb"),
      Chars("abcdef"), Chars("abcdefg"), <<CJK, CJK, CJK, " ", CJK, CJK, CJK, CJK>> }

\* the field names with the plural indices each one takes
FieldNames ==
    { <<Chars("msgid"), <<>>>>, <<Chars("msgctxt"), <<>>>>, <<Chars("msgid_plural"), <<>>>>,
      <<Chars("msgstr"), <<>>>>, <<Chars("msgstr"), IDX0>>, <<Chars("msgstr"), Chars("10")>> }

DelFlags == {<<>>, Chars("#~ "), Chars("#| ")}

InitField ==
    /\ file = <<>>
    /\ \E name \in FieldNames, delflag \in DelFlags, value \in FieldValues, w \in WrapWidths :
          arg = [fieldname |-> name[1], plural_index |-> name[2], delflag |-> delflag,
                 value |-> value, wrapwidth |-> w]
    /\ pre = <<>>
    /\ op = "new"
    /\ ret = <<>>

\* POStringField::new(fieldname, delflag, value, plural_index, wrapwidth).to_string()
DoFieldToString ==
    /\ op = "new"
    /\ ret' = POStringField(arg.fieldname, arg.delflag, arg.value, arg.plural_index,
                            arg.wrapwidth)
    /\ op' = "field_to_string"
    /\ UNCHANGED <<file, arg, pre>>

NextField == DoFieldToString

SpecField == InitField /\ [][NextField]_vars

\* what a line holds between its first and its last double quote
Payload(line) ==
    LET first == CHOOSE i \in 1..Len(line) : line[i] = DQUOTE /\ \A j \in 1..(i - 1) : line[j] # DQUOTE
    IN SubSeq(line, first + 1, Len(line) - 1)

Payloads(text) == [i \in 1..Len(Lines(text)) |-> Payload(Lines(text)[i])]

\* every escaped character of the payload is written as its two-character
\* sequence: no raw newline, tab or carriage return, no double quote without
\* its backslash, no backslash without its partner
WellEscaped(payload) ==
    /\ \A i \in 1..Len(payload) : payload[i] \notin {"\n", "\t", "\r"}
    /\ UnescapedQuoteFrom(payload, 1) = 0
    /\ Unescape(payload).tag = "Ok"

\* C16: the string payload emitted for a field is the escaped value: every
\* backslash, double quote, newline, tab and carriage return of the value
\* appears as its two-character sequence and every other character unchanged.
C16_PayloadIsEscapedValue ==
    op = "field_to_string" =>
        /\ \A i \in 1..Len(Payloads(ret)) : WellEscaped(Payloads(ret)[i])
        /\ Unescape(Concat(Payloads(ret))) = Ok(arg.value)

\* C20: POStringField layout rule: when width(escaped value) +
\* width(fieldname) + 1 <= wrapwidth the field is one line
\* {delflag}{fieldname}[{plural_index}] "{escaped}"; otherwise it is
\* {delflag}{fieldname}[{plural_index}] "" followed by one {delflag}"{piece}"
\* line per piece of wrap(escaped value, wrapwidth); the bracketed index is
\* there only for a plural msgstr.
C20_FieldLayout ==
    op = "field_to_string" =>
        LET escaped == Escape(arg.value)
            head == arg.delflag \o arg.fieldname
                    \o (IF arg.plural_index = <<>> THEN <<>>
                        ELSE Chars("[") \o arg.plural_index \o Chars("]"))
            pieces == Wrap(escaped, arg.wrapwidth)
            expected ==
                IF StrWidth(escaped) + StrWidth(arg.fieldname) + 1 <= arg.wrapwidth
                THEN <<head \o Chars(" \"") \o escaped \o Chars("\"")>>
                ELSE <<head \o Chars(" \"\"")>>
                     \o [i \in 1..Len(pieces) |->
                            arg.delflag \o Chars("\"") \o pieces[i] \o Chars("\"")]
        IN /\ Lines(ret) = expected
           /\ ret[Len(ret)] = "\n"

\* a plural msgstr of an obsolete entry that does not fit in 12 columns
C20_Witness ==
    /\ op = "field_to_string"
    /\ arg.wrapwidth = 12
    /\ arg.value = Chars("aaa bbb ccc ddd")
    /\ arg.plural_index = Chars("10")
    /\ arg.delflag = Chars("#~ ")
    /\ Lines(ret) = <<Chars("#~ msgstr[10] \"\""), Chars("#~ \"aaa bbb ccc \""),
                      Chars("#~ \"ddd\"")>>

(***************************************************************************)
(* remove and find                                                         *)
(***************************************************************************)
\* the longest catalog that append builds here
MaxCatalog == 3

\* entries with one msgid and the contexts c, none and "", and an entry with
\* another msgid
QueryEntries ==
    LET base == NewPOEntry(0)
    IN { [base EXCEPT !.msgid = SA, !.msgstr = Some(SY), !.msgctxt = Some(SC)],
         [base EXCEPT !.msgid = SA, !.msgstr = Some(SX)],
         [base EXCEPT !.msgid = SA, !.msgstr = Some(SX), !.msgctxt = Some(<<>>)],
         [base EXCEPT !.msgid = SB, !.msgstr = Some(SX), !.linenum = 4] }

InitQuery ==
    /\ file = NewPOFile(<<>>, EmptyMap, 78)
    /\ arg = <<>>
    /\ pre = <<>>
    /\ op = "new"
    /\ ret = <<>>

\* self.entries.push(entry)
DoAppendQuery ==
    \E e \in QueryEntries :
        /\ Len(file.entries) < MaxCatalog
        /\ file' = [file EXCEPT !.entries = Append(@, e)]
        /\ arg' = e
        /\ pre' = <<>>
        /\ op' = "append"
        /\ ret' = <<>>

\* self.remove(&entry)
DoRemoveQuery ==
    \E e \in QueryEntries :
        /\ file' = [file EXCEPT !.entries = POFile_remove(@, e)]
        /\ arg' = e
        /\ pre' = file.entries
        /\ op' = "remove"
        /\ ret' = <<>>

\* self.find_by_msgid(msgid)
DoFindByMsgid ==
    \E msgid \in {SA, SB} :
        /\ ret' = POFile_find_by_msgid(file.entries, msgid)
        /\ arg' = <<msgid>>
        /\ op' = "find_by_msgid"
        /\ pre' = <<>>
        /\ UNCHANGED file

\* self.find_by_msgid_msgctxt(msgid, msgctxt)
DoFindByMsgidMsgctxt ==
    \E msgid \in {SA, SB}, msgctxt \in {<<>>, SC} :
        /\ ret' = POFile_find_by_msgid_msgctxt(file.entries, msgid, msgctxt)
        /\ arg' = <<msgid, msgctxt>>
        /\ op' = "find_by_msgid_msgctxt"
        /\ pre' = <<>>
        /\ UNCHANGED file

NextQuery == DoAppendQuery \/ DoRemoveQuery \/ DoFindByMsgid \/ DoFindByMsgidMsgctxt

SpecQuery == InitQuery /\ [][NextQuery]_vars

\* the first place of a sequence at which a test holds, 0 if it holds nowhere
FirstPlace(hits) ==
    IF hits = {} THEN 0 ELSE CHOOSE i \in hits : \A j \in hits : i <= j

\* C18: POFile::remove(entry) removes exactly the first entry that is
\* structurally equal to the argument, leaving later equal duplicates and the
\* order of all other entries unchanged; when no entry is equal, the catalog
\* is left unchanged.
C18_RemoveFirstEqual ==
    op = "remove" =>
        LET i == FirstPlace({k \in 1..Len(pre) : pre[k] = arg})
        IN IF i = 0 THEN file.entries = pre
           ELSE /\ Len(file.entries) = Len(pre) - 1
                /\ \A k \in 1..(i - 1) : file.entries[k] = pre[k]
                /\ \A k \in i..(Len(pre) - 1) : file.entries[k] = pre[k + 1]

\* the entry removed stands first and third, with another entry between
C18_Witness ==
    /\ op = "remove"
    /\ Len(pre) = 3
    /\ pre[1] = arg /\ pre[3] = arg /\ pre[2] # arg /\ pre[2].msgid = arg.msgid
    /\ file.entries = <<pre[2], arg>>

\* C19: find_by_msgid_msgctxt(msgid, msgctxt) returns the first entry in
\* sequence order whose msgid equals msgid and whose context, an absent one
\* read as the empty string, equals msgctxt, and none when no entry
\* qualifies; find_by_msgid returns the first entry with that msgid
\* whatever its context.
C19_FindFirstMatch ==
    /\ op = "find_by_msgid" =>
          LET i == FirstPlace({k \in 1..Len(file.entries) : file.entries[k].msgid = arg[1]})
          IN ret = IF i = 0 THEN None ELSE Some(file.entries[i])
    /\ op = "find_by_msgid_msgctxt" =>
          LET i == FirstPlace({k \in 1..Len(file.entries) :
                                  /\ file.entries[k].msgid = arg[1]
                                  /\ CtxOrEmpty(file.entries[k]) = arg[2]})
          IN ret = IF i = 0 THEN None ELSE Some(file.entries[i])

\* a search for the empty context finds the entry without a context that
\* stands before an entry with the context ""
C19_Witness ==
    /\ op = "find_by_msgid_msgctxt"
    /\ arg = <<SA, <<>>>>
    /\ Len(file.entries) = 3
    /\ file.entries[1].msgctxt = Some(SC)
    /\ file.entries[2].msgctxt = None
    /\ file.entries[3].msgctxt = Some(<<>>)
    /\ ret = Some(file.entries[2])

(***************************************************************************)
(* unescape() on its own                                                   *)
(***************************************************************************)
\* the longest text handed to unescape
MaxText == 3

\* a plain character, the backslash, the escapable quote and n, and x, which
\* no escape sequence ends in
EscapeAlphabet == {"a", BACKSLASH, DQUOTE, "n", "x"}

EscapeTexts == UNION {[1..n -> EscapeAlphabet] : n \in 0..MaxText}

InitEscaping ==
    /\ file = NewPOFile(<<>>, EmptyMap, 78)
    /\ arg \in EscapeTexts
    /\ pre = <<>>
    /\ op = "new"
    /\ ret = <<>>

\* unescape(text)
DoUnescape ==
    /\ op = "new"
    /\ ret' = Unescape(arg)
    /\ op' = "unescape"
    /\ UNCHANGED <<file, arg, pre>>

NextEscaping == DoUnescape

SpecEscaping == InitEscaping /\ [][NextEscaping]_vars

\* the backslashes that stand immediately before place i
RECURSIVE BackslashesBefore(_, _)
BackslashesBefore(text, i) ==
    IF i = 1 \/ text[i - 1] # BACKSLASH THEN 0
    ELSE 1 + BackslashesBefore(text, i - 1)

\* place i opens an escape sequence: a backslash that does not close one
OpensEscape(text, i) ==
    text[i] = BACKSLASH /\ BackslashesBefore(text, i) % 2 = 0

\* the places whose escape sequence has no meaning
EscapeFaults(text) ==
    {i \in 1..Len(text) :
        /\ OpensEscape(text, i)
        /\ \/ i = Len(text)
           \/ text[i + 1] \notin {BACKSLASH, DQUOTE, "n", "t", "r"}}

MaxWrapText == 4

\* a narrow character, the space, a two-byte character of width 1 and a
\* three-byte character of width 2
WrapAlphabet == {"a", " ", EACUTE, CJK}

\* every short text, and the shape of the texts of tests::simple and
\* tests::unicode_characters
WrapTexts ==
    UNION {[1..n -> WrapAlphabet] : n \in 0..MaxWrapText}
    \cup {Chars("aa aa aaa a aaaa"),
          <<"a", EACUTE, EACUTE, " ", "a", "a", "a", " ", EACUTE, EACUTE, EACUTE, " ", "a", "a">>}

WrapTargets == {0, 1, 2, 3, 5}

InitWrap ==
    /\ file = <<>>
    /\ \E text \in WrapTexts, wrapwidth \in WrapTargets :
          arg = [text |-> text, wrapwidth |-> wrapwidth]
    /\ pre = <<>>
    /\ op = "new"
    /\ ret = <<>>

\* wrap(text, wrapwidth)
DoWrap ==
    /\ op = "new"
    /\ ret' = Wrap(arg.text, arg.wrapwidth)
    /\ op' = "wrap"
    /\ UNCHANGED <<file, arg, pre>>

NextWrap == DoWrap

SpecWrap == InitWrap /\ [][NextWrap]_vars

\* C21: for every text and every wrapwidth, wrap returns a non-empty sequence
\* of pieces whose concatenation in order is exactly the input text.
C21_PiecesRebuildText ==
    op = "wrap" => Len(ret) >= 1 /\ Concat(ret) = arg.text

\* a text of two words is cut into two pieces, each with its space
C21_Witness ==
    /\ op = "wrap"
    /\ arg.text = <<"a", " ", "a", " ">>
    /\ arg.wrapwidth = 1
    /\ ret = << <<"a", " ">>, <<"a", " ">> >>

\* the places of a text before which a line may be broken
Opportunities(text) == {i \in 2..Len(text) : BreakAllowed(text[i - 1], text[i])}

\* the place in the text at which piece k starts
PieceStart(pieces, k) == Len(Concat(SubSeq(pieces, 1, k - 1))) + 1

\* C22: wrap breaks only at line-break opportunities, and every returned
\* piece either has display width at most wrapwidth or is a single
\* unbreakable run, without a break opportunity inside it.
C22_PiecesFitOrUnbreakable ==
    op = "wrap" =>
        /\ \A k \in 2..Len(ret) :
               PieceStart(ret, k) \in Opportunities(arg.text) \cup {Len(arg.text) + 1}
        /\ \A k \in 1..Len(ret) :
               StrWidth(ret[k]) <= arg.wrapwidth \/ Opportunities(ret[k]) = {}

\* a run wider than the target is emitted whole, with its space, and the
\* break is at the opportunity after it
C22_Witness ==
    /\ op = "wrap"
    /\ arg.text = <<"a", "a", " ", CJK>>
    /\ arg.wrapwidth = 1
    /\ ret = << <<"a", "a", " ">>, <<CJK>> >>

(***************************************************************************)
(* One entry written as PO text                                            *)
(***************************************************************************)
\* the msgstr side of an entry: a scalar msgstr, a scalar msgstr that ends in
\* a space and a newline, a context with a plural pair
EntryBodies ==
    { [msgstr |-> Some(SX), msgctxt |-> None, msgid_plural |-> None,
       msgstr_plural |-> EmptyMap],
      [msgstr |-> Some(<<"x", " ", "\n">>), msgctxt |-> None, msgid_plural |-> None,
       msgstr_plural |-> EmptyMap],
      [msgstr |-> None, msgctxt |-> Some(SC), msgid_plural |-> Some(SB),
       msgstr_plural |-> (IDX0 :> SX) @@ (IDX1 :> SY)] }

\* no previous field, the three of them, the previous msgid_plural alone
EntryPrevious == {<<None, None, None>>, <<Some(SA), Some(SB), Some(SC)>>, <<None, None, Some(SC)>>}

\* no occurrence, one with a line, one with a line and one without
EntryOccurrences ==
    {<<>>, << <<Chars("f"), Chars("1")>> >>,
     << <<Chars("f"), Chars("1")>>, <<Chars("g"), <<>>>> >>}

EntryInputs ==
    { [NewPOEntry(0) EXCEPT
          !.msgid = SA, !.msgstr = body.msgstr, !.msgctxt = body.msgctxt,
          !.msgid_plural = body.msgid_plural, !.msgstr_plural = body.msgstr_plural,
          !.tcomment = tcomment, !.comment = comment, !.occurrences = occurrences,
          !.flags = flags, !.obsolete = obsolete,
          !.previous_msgctxt = previous[1], !.previous_msgid = previous[2],
          !.previous_msgid_plural = previous[3]] :
        body \in EntryBodies, previous \in EntryPrevious,
        occurrences \in EntryOccurrences,
        tcomment \in {None, Some(Chars("tt tt"))},
        comment \in {None, Some(Chars("cc cc"))},
        flags \in {<<>>, <<FUZZY, SX>>},
        obsolete \in BOOLEAN }

\* widths below the 2 and the 3 that are subtracted, a width that the
\* comments and two occurrences do not fit in, the default
EntryWidths == {0, 2, 6, 78}

InitEntry ==
    /\ file = <<>>
    /\ \E self \in EntryInputs, wrapwidth \in EntryWidths :
          arg = [self |-> self, wrapwidth |-> wrapwidth]
    /\ pre = <<>>
    /\ op = "new"
    /\ ret = <<>>

\* the occurrences as they are written: path:line, or path alone
files_repr(self) ==
    Join([i \in 1..Len(self.occurrences) |->
             IF self.occurrences[i][2] = <<>> THEN self.occurrences[i][1]
             ELSE self.occurrences[i][1] \o <<":">> \o self.occurrences[i][2]],
         <<" ">>)

\* a comment has a line that is wrapped
WrapsComment(comment, wrapwidth) ==
    /\ IsSome(comment)
    /\ \E i \in 1..Len(Lines(Unwrap(comment))) :
          GraphemeCount(Lines(Unwrap(comment))[i]) + 2 > wrapwidth

\* what to_string_with_wrapwidth subtracts from wrapwidth on its way: 2 for
\* a comment line that is wrapped, 3 for occurrences that are wrapped
WidthsSubtracted(self, wrapwidth) ==
    (IF WrapsComment(self.tcomment, wrapwidth) \/ WrapsComment(self.comment, wrapwidth)
     THEN {2} ELSE {})
    \cup (IF /\ ~self.obsolete
              /\ self.occurrences # <<>>
              /\ GraphemeCount(files_repr(self)) + 3 > wrapwidth
           THEN {3} ELSE {})

\* self.to_string_with_wrapwidth(wrapwidth): a usize subtraction below zero
\* panics in a build with overflow checks and wraps around in one without
DoToStringWithWrapwidth ==
    /\ op = "new"
    /\ \E overflow_checks \in BOOLEAN :
          IF overflow_checks /\ \E k \in WidthsSubtracted(arg.self, arg.wrapwidth) : k > arg.wrapwidth
          THEN /\ ret' = <<>>
               /\ op' = "panicked"
          ELSE /\ ret' = POEntry_to_string_with_wrapwidth(arg.self, arg.wrapwidth)
               /\ op' = "to_string_with_wrapwidth"
    /\ UNCHANGED <<file, arg, pre>>

NextEntry == DoToStringWithWrapwidth

SpecEntry == InitEntry /\ [][NextEntry]_vars

\* the markers that open the lines written after the comments
AfterComments ==
    {Chars("#: "), Chars("#, "), Chars("#| "), Chars("#~"), Chars("msgctxt "), Chars("msgid ")}

\* the lines of an entry's text that stand before its first line of another
\* section: the lines written for tcomment and comment
CommentBlock(lines) ==
    LET later == {i \in 1..Len(lines) : \E m \in AfterComments : StartsWith(lines[i], m)}
    IN SubSeq(lines, 1, FirstPlace(later) - 1)

\* C24: every output line produced for a tcomment begins with "#. " and every
\* output line produced for a comment begins with "# ", for every wrapwidth,
\* the pieces of a wrapped comment line included.
C24_CommentLinesPrefixed ==
    op = "to_string_with_wrapwidth" =>
        LET block == CommentBlock(Lines(ret))
            extracted == {i \in 1..Len(block) : StartsWith(block[i], Chars("#. "))}
            plain == {i \in 1..Len(block) : StartsWith(block[i], Chars("# "))}
        IN /\ extracted \cup plain = 1..Len(block)
           /\ \A i \in extracted, j \in plain : i < j
           /\ IsSome(arg.self.tcomment) <=> extracted # {}
           /\ IsSome(arg.self.comment) <=> plain # {}

\* C29: to_string_with_wrapwidth never underflows its unsigned width
\* arithmetic: for every wrapwidth, 0, 1 and 2 included, an entry with a
\* comment or tcomment line (wrapwidth - 2) or with occurrences on a
\* non-obsolete entry (wrapwidth - 3) is serialized with a wrap width that is
\* not negative.
C29_NoUnderflow ==
    /\ op # "panicked"
    /\ op = "to_string_with_wrapwidth" =>
          \A k \in WidthsSubtracted(arg.self, arg.wrapwidth) : arg.wrapwidth >= k

\* the letters and underscores a line holds from place i up to a space, a
\* bracket or a quote
RECURSIVE KeywordFrom(_, _)
KeywordFrom(line, i) ==
    IF i > Len(line) \/ line[i] \in {" ", "[", DQUOTE} THEN <<>>
    ELSE <<line[i]>> \o KeywordFrom(line, i + 1)

\* the keywords of the lines that start with prefix and a keyword, in the
\* order of the lines
RECURSIVE KeywordsUnder(_, _)
KeywordsUnder(lines, prefix) ==
    IF lines = <<>> THEN <<>>
    ELSE (IF StartsWith(Head(lines), prefix)
             /\ KeywordFrom(Head(lines), Len(prefix) + 1) # <<>>
          THEN <<KeywordFrom(Head(lines), Len(prefix) + 1)>>
          ELSE <<>>)
         \o KeywordsUnder(Tail(lines), prefix)

\* C25: the previous-value fields are emitted in the order previous_msgctxt,
\* previous_msgid, previous_msgid_plural under the keywords msgctxt, msgid and
\* msgid_plural, each line prefixed "#| " for live entries and "#~| " for
\* obsolete ones, and all msgctxt, msgid, msgid_plural and msgstr lines of an
\* obsolete entry are prefixed "#~ ".
C25_PreviousFields ==
    op = "to_string_with_wrapwidth" =>
        LET self == arg.self
            lines == Lines(ret)
            expected ==
                (IF IsSome(self.previous_msgctxt) THEN <<Chars("msgctxt")>> ELSE <<>>)
                \o (IF IsSome(self.previous_msgid) THEN <<Chars("msgid")>> ELSE <<>>)
                \o (IF IsSome(self.previous_msgid_plural) THEN <<Chars("msgid_plural")>> ELSE <<>>)
        IN /\ KeywordsUnder(lines, IF self.obsolete THEN Chars("#~| ") ELSE Chars("#| "))
                = expected
           /\ KeywordsUnder(lines, IF self.obsolete THEN Chars("#| ") ELSE Chars("#~| ")) = <<>>
           /\ self.obsolete =>
                 \A i \in 1..Len(lines) :
                     ~StartsWith(lines[i], Chars("msg")) /\ ~StartsWith(lines[i], <<DQUOTE>>)

EndsWith(s, p) == Len(s) >= Len(p) /\ SubSeq(s, Len(s) - Len(p) + 1, Len(s)) = p

\* C28: serializing a non-metadata entry emits its scalar msgstr in full,
\* exactly as msgid is emitted: no character of the value is dropped, trailing
\* whitespace and trailing newlines included.
C28_MsgstrInFull ==
    (op = "to_string_with_wrapwidth" /\ IsSome(arg.self.msgstr)) =>
        EndsWith(ret, POStringField(Chars("msgstr"),
                                    IF arg.self.obsolete THEN Chars("#~ ") ELSE <<>>,
                                    Unwrap(arg.self.msgstr), <<>>, arg.wrapwidth))

\* the line without the "#~ " of an obsolete entry
Undeleted(line) ==
    IF StartsWith(line, Chars("#~ ")) THEN SubSeq(line, 4, Len(line)) ELSE line

\* the section a line opens: 1 tcomment, 2 comment, 3 occurrences, 4 flags,
\* 5 previous fields, 6 msgctxt, 7 msgid, 8 msgid_plural, 9 msgstr; 0 for a
\* line that opens none (a continuation line, an empty line)
SectionOf(line) ==
    IF StartsWith(line, Chars("#. ")) THEN 1
    ELSE IF StartsWith(line, Chars("# ")) THEN 2
    ELSE IF StartsWith(line, Chars("#: ")) THEN 3
    ELSE IF StartsWith(line, Chars("#, ")) THEN 4
    ELSE IF StartsWith(line, Chars("#| ")) \/ StartsWith(line, Chars("#~| ")) THEN 5
    ELSE IF KeywordFrom(Undeleted(line), 1) = Chars("msgctxt") THEN 6
    ELSE IF KeywordFrom(Undeleted(line), 1) = Chars("msgid") THEN 7
    ELSE IF KeywordFrom(Undeleted(line), 1) = Chars("msgid_plural") THEN 8
    ELSE IF KeywordFrom(Undeleted(line), 1) = Chars("msgstr") THEN 9
    ELSE 0

\* what the lines of section k hold after their three-character marker
RECURSIVE SectionText(_, _)
SectionText(lines, k) ==
    IF lines = <<>> THEN <<>>
    ELSE (IF SectionOf(Head(lines)) = k THEN SubSeq(Head(lines), 4, Len(Head(lines))) ELSE <<>>)
         \o SectionText(Tail(lines), k)

\* the sections an entry has, by its fields
SectionsOf(self) ==
    (IF IsSome(self.tcomment) THEN {1} ELSE {})
    \cup (IF IsSome(self.comment) THEN {2} ELSE {})
    \cup (IF ~self.obsolete /\ self.occurrences # <<>> THEN {3} ELSE {})
    \cup (IF self.flags # <<>> THEN {4} ELSE {})
    \cup (IF IsSome(self.previous_msgctxt) \/ IsSome(self.previous_msgid)
             \/ IsSome(self.previous_msgid_plural) THEN {5} ELSE {})
    \cup (IF IsSome(self.msgctxt) THEN {6} ELSE {})
    \cup {7}
    \cup (IF IsSome(self.msgid_plural) THEN {8} ELSE {})
    \cup {9}

\* C23: a serialized entry lays out its sections in this fixed order,
\* skipping absent ones: tcomment lines, comment lines, the occurrences line,
\* the flags line "#, f1, f2, ...", previous fields, msgctxt, msgid,
\* msgid_plural, then msgstr or the msgstr[i] lines; the occurrences are
\* emitted only for non-obsolete entries, each as path:line or as path alone
\* when the line is empty, joined by single spaces in list order.
C23_SectionOrder ==
    op = "to_string_with_wrapwidth" =>
        LET self == arg.self
            lines == Lines(ret)
            opened == {SectionOf(lines[i]) : i \in 1..Len(lines)} \ {0}
        IN /\ \A i, j \in 1..Len(lines) :
                 (i < j /\ SectionOf(lines[i]) > 0 /\ SectionOf(lines[j]) > 0)
                     => SectionOf(lines[i]) <= SectionOf(lines[j])
           /\ opened \subseteq SectionsOf(self)
           /\ SectionsOf(self) \ {1, 2} \subseteq opened
           /\ SectionText(lines, 3) = (IF self.obsolete THEN <<>> ELSE files_repr(self))
           /\ SectionText(lines, 4) = Join(self.flags, Chars(", "))

\* an entry with every section, two occurrences of which the second has no
\* line, written at the default width
C23_Witness ==
    /\ op = "to_string_with_wrapwidth"
    /\ arg.wrapwidth = 78
    /\ SectionsOf(arg.self) = 1..9
    /\ Len(arg.self.occurrences) = 2
    /\ {SectionOf(Lines(ret)[i]) : i \in 1..Len(Lines(ret))} = 0..9
    /\ Lines(ret)[3] = Chars("#: f:1 g")

(***************************************************************************)
(* The header, the metadata and the two groups of entries of a saved file  *)
(***************************************************************************)
MaxSaved == 3

\* no key; a canonical key and another; a value wider than the narrow width
\* that ends in a space and holds a quote; a value of two lines
SavedMetadata ==
    { EmptyMap,
      TextMetadata,
      (LANGUAGE :> Chars("aaa bbb ccc \"ddd\" eee ")),
      (LANGUAGE :> Chars("a\nb")) @@ (Chars("X-2") :> SX) }

\* two live entries and an obsolete one
SavedEntries ==
    LET base == NewPOEntry(0)
    IN { [base EXCEPT !.msgid = SA, !.msgstr = Some(SX)],
         [base EXCEPT !.msgid = SB, !.msgstr = Some(SY), !.tcomment = Some(Chars("t"))],
         [base EXCEPT !.msgid = SC, !.msgstr = Some(SX), !.obsolete = TRUE] }

InitSaved ==
    /\ \E w \in WrapWidths, fuzzy \in BOOLEAN, metadata \in SavedMetadata,
          header \in {None, Some(Chars("h\n\ni"))} :
          file = [NewPOFile(<<>>, metadata, w) EXCEPT
                     !.header = header, !.metadata_is_fuzzy = fuzzy]
    /\ arg = <<>>
    /\ pre = <<>>
    /\ op = "new"
    /\ ret = <<>>

\* file.append(entry)
DoAppendSaved ==
    /\ Len(file.entries) < MaxSaved
    /\ \E e \in SavedEntries : file' = [file EXCEPT !.entries = Append(@, e)]
    /\ op' = "append"
    /\ arg' = <<>>
    /\ ret' = <<>>
    /\ UNCHANGED pre

NextSaved == DoAppendSaved \/ DoPOFileToString

SpecSaved == InitSaved /\ [][NextSaved]_vars

\* the lines cut into blocks at every empty line
RECURSIVE Blocks(_, _)
Blocks(lines, cur) ==
    IF lines = <<>> THEN <<cur>>
    ELSE IF Head(lines) = <<>> THEN <<cur>> \o Blocks(Tail(lines), <<>>)
    ELSE Blocks(Tail(lines), Append(cur, Head(lines)))

\* the lines of a header comment
HeaderLines(lines) ==
    IF lines = <<>> \/ Head(Head(lines)) # "#" THEN <<>>
    ELSE LET ends == {i \in 1..Len(lines) : i = Len(lines) \/ Head(lines[i + 1]) # "#"}
         IN SubSeq(lines, 1, CHOOSE i \in ends : \A j \in ends : i <= j)

\* the lines of the metadata entry: the first block without the header comment
MetadataLines(text) ==
    LET first == Blocks(Lines(text), <<>>)[1]
    IN SubSeq(first, Len(HeaderLines(first)) + 1, Len(first))

\* C26: POFile serialization emits the metadata entry as the lines msgid ""
\* and msgstr "" followed by exactly one quoted line "Key: Value\n" per
\* metadata key in the ordered sequence, each value verbatim, never wrapped
\* or trimmed, whatever its length and whatever the wrapwidth; with an empty
\* metadata map only the lines msgid "" and msgstr "" are emitted.
C26_MetadataLines ==
    op = "to_string" =>
        LET ordered == metadata_hashmap_to_ordered(file.metadata, arg)
        IN MetadataLines(ret)
               = <<Chars("msgid \"\""), Chars("msgstr \"\"")>>
                 \o [i \in 1..Len(ordered) |->
                        <<DQUOTE>> \o ordered[i][1] \o Chars(": ") \o ordered[i][2]
                        \o <<BACKSLASH, "n", DQUOTE>>]

\* the entries of one group, in catalog order
RECURSIVE Group(_, _)
Group(entries, obsolete) ==
    IF entries = <<>> THEN <<>>
    ELSE (IF Head(entries).obsolete = obsolete THEN <<Head(entries)>> ELSE <<>>)
         \o Group(Tail(entries), obsolete)

\* C27: POFile serialization emits, in order, the header comment block, the
\* metadata entry, all non-obsolete entries in catalog order, then all
\* obsolete entries in catalog order: an obsolete entry that stands before a
\* live entry in the catalog is emitted after it, the order within each group
\* is kept, and the output ends without a trailing blank line.
C27_SerializationOrder ==
    op = "to_string" =>
        LET lines == Lines(ret)
            blocks == Blocks(lines, <<>>)
            expected == Group(file.entries, FALSE) \o Group(file.entries, TRUE)
            hl == IF IsSome(file.header) THEN Lines(Unwrap(file.header)) ELSE <<>>
        IN /\ Len(blocks) = 1 + Len(file.entries)
           /\ HeaderLines(blocks[1])
                  = [i \in 1..Len(hl) |->
                        IF hl[i] = <<>> THEN <<"#">> ELSE Chars("# ") \o hl[i]]
           /\ Head(MetadataLines(ret)) = Chars("msgid \"\"")
           /\ \A k \in 1..Len(expected) :
                 Concat([i \in 1..Len(blocks[k + 1]) |-> blocks[k + 1][i] \o <<"\n">>])
                     = POEntry_to_string(expected[k])
           /\ ret[Len(ret)] = "\n"
           /\ ret[Len(ret) - 1] # "\n"

\* the obsolete entry c appended before the live entries a and b, and written
\* after them
C27_Witness ==
    /\ op = "to_string"
    /\ IsSome(file.header)
    /\ Len(file.entries) = 3
    /\ file.entries[1].obsolete
    /\ file.entries[2].msgid = SA
    /\ file.entries[3].msgid = SB
    /\ Blocks(Lines(ret), <<>>)[2][1] = Chars("msgid \"a\"")
    /\ Blocks(Lines(ret), <<>>)[3][1] = Chars("#. t")
    /\ Blocks(Lines(ret), <<>>)[4][1] = Chars("#~ msgid \"c\"")

(***************************************************************************)
(* The four conversions of bitwise.rs on their own                         *)
(***************************************************************************)
\* (byte as u32) << n for n in 0, 8, 16, 24: no bit leaves the 32
ShiftLeft(byte, n) ==
    IF n = 0 THEN U32(0, byte)
    ELSE IF n = 8 THEN U32(0, byte * 256)
    ELSE IF n = 16 THEN U32(byte, 0)
    ELSE U32((byte * 256) % 65536, 0)

\* x + y on u32 with the carry kept: the high half is above 65535 exactly
\* when the sum does not fit in 32 bits
AddU32(x, y) ==
    <<x[1] + y[1] + ((x[2] + y[2]) \div 65536), (x[2] + y[2]) % 65536>>

\* bitwise::as_u32_le, the value after each of the three additions
as_u32_le_sums(array) ==
    LET s1 == AddU32(ShiftLeft(array[1], 0), ShiftLeft(array[2], 8))
        s2 == AddU32(s1, ShiftLeft(array[3], 16))
        s3 == AddU32(s2, ShiftLeft(array[4], 24))
    IN <<s1, s2, s3>>

\* bitwise::as_u32_be, the value after each of the three additions
as_u32_be_sums(array) ==
    LET s1 == AddU32(ShiftLeft(array[1], 24), ShiftLeft(array[2], 16))
        s2 == AddU32(s1, ShiftLeft(array[3], 8))
        s3 == AddU32(s2, ShiftLeft(array[4], 0))
    IN <<s1, s2, s3>>

\* the halves and the bytes the conversions are tried on: the ends of the
\* ranges, the values next to a byte boundary and the halves of MAGIC
CodecHalves == {0, 1, 255, 256, 4830, 38148, 65535}
CodecBytes == {0, 1, 128, 255}

InitCodec ==
    /\ arg \in {U32(hi, lo) : hi, lo \in CodecHalves} \cup [1..4 -> CodecBytes]
    /\ file = <<>>
    /\ pre = [op |-> "new", from |-> <<>>]
    /\ op = "new"
    /\ ret = <<>>

\* the value the next conversion is applied to: the input or the last result
Current == IF op = "new" THEN arg ELSE ret

\* as_u8_array_le(num)
DoAsU8ArrayLe ==
    /\ Len(Current) = 2
    /\ ret' = as_u8_array_le(Current)
    /\ arg' = Current
    /\ pre' = [op |-> op, from |-> IF op = "new" THEN <<>> ELSE arg]
    /\ op' = "as_u8_array_le"
    /\ UNCHANGED file

\* as_u8_array_be(num)
DoAsU8ArrayBe ==
    /\ Len(Current) = 2
    /\ ret' = as_u8_array_be(Current)
    /\ arg' = Current
    /\ pre' = [op |-> op, from |-> IF op = "new" THEN <<>> ELSE arg]
    /\ op' = "as_u8_array_be"
    /\ UNCHANGED file

\* as_u32_le(&array)
DoAsU32Le ==
    /\ Len(Current) = 4
    /\ ret' = as_u32_le(Current)
    /\ arg' = Current
    /\ pre' = [op |-> op, from |-> IF op = "new" THEN <<>> ELSE arg]
    /\ op' = "as_u32_le"
    /\ UNCHANGED file

\* as_u32_be(&array)
DoAsU32Be ==
    /\ Len(Current) = 4
    /\ ret' = as_u32_be(Current)
    /\ arg' = Current
    /\ pre' = [op |-> op, from |-> IF op = "new" THEN <<>> ELSE arg]
    /\ op' = "as_u32_be"
    /\ UNCHANGED file

NextCodec == DoAsU8ArrayLe \/ DoAsU8ArrayBe \/ DoAsU32Le \/ DoAsU32Be

SpecCodec == InitCodec /\ [][NextCodec]_vars

\* C30: the 32-bit conversions are mutually inverse and free of overflow for
\* every u32 n and every array of four bytes: as_u32_le(as_u8_array_le(n)) = n,
\* as_u32_be(as_u8_array_be(n)) = n, as_u8_array_be(n) is as_u8_array_le(n)
\* with its bytes in reverse order, and no addition in as_u32_le or as_u32_be
\* goes above 2^32 - 1.
C30_CodecInverse ==
    /\ (op = "as_u32_le" /\ pre.op = "as_u8_array_le") => ret = pre.from
    /\ (op = "as_u32_be" /\ pre.op = "as_u8_array_be") => ret = pre.from
    /\ (op = "as_u8_array_le" /\ pre.op = "as_u32_le") => ret = pre.from
    /\ (op = "as_u8_array_be" /\ pre.op = "as_u32_be") => ret = pre.from
    /\ op = "as_u8_array_be" =>
          ret = [i \in 1..4 |-> as_u8_array_le(arg)[5 - i]]
    /\ op = "as_u32_le" =>
          /\ \A i \in 1..3 : as_u32_le_sums(arg)[i][1] <= 65535
          /\ as_u32_le_sums(arg)[3] = ret
    /\ op = "as_u32_be" =>
          /\ \A i \in 1..3 : as_u32_be_sums(arg)[i][1] <= 65535
          /\ as_u32_be_sums(arg)[3] = ret

\* 2^32 - 1 written in little-endian order and read back: the last addition
\* reaches the largest u32
C30_Witness ==
    /\ op = "as_u32_le"
    /\ pre = [op |-> "as_u8_array_le", from |-> U32(65535, 65535)]
    /\ arg = <<255, 255, 255, 255>>
    /\ ret = U32(65535, 65535)
    /\ as_u32_le_sums(arg)[3] = U32(65535, 65535)
====
